---- MODULE Spec2Model ----
(***************************************************************************)
(* A model of the Amazon deal finder (p32nicky/amazonbot).                 *)
(*                                                                         *)
(* The enhanced variant (amazon_deals_github_pages_enhanced.py) is the     *)
(* one modelled as a state machine: _get_with_retries, find_deals,         *)
(* _extract_product_info, _find_deals_by_search, _generate_affiliate_link. *)
(* The persistent variant's _generate_affiliate_link is modelled beside    *)
(* it.                                                                     *)
(*                                                                         *)
(* Texts are sequences of one-character strings; URLs are sequences of     *)
(* lexical tokens (separators and text atoms); prices are Python floats,   *)
(* that is IEEE-754 binary64 values, kept bit-exact.                       *)
(***************************************************************************)
EXTENDS Integers, Sequences, FiniteSets, TLC

(***************************************************************************)
(* Natural numbers of any size as big-endian bit sequences without leading *)
(* zeros (<<>> is 0): a float's 53-bit significand does not fit a TLC      *)
(* integer.                                                                *)
(***************************************************************************)
Zeros(k) == [i \in 1..k |-> 0]

SetMin(S) == CHOOSE i \in S : \A j \in S : i <= j

BStrip(b) ==
  LET ones == {i \in 1..Len(b) : b[i] = 1}
  IN  IF ones = {} THEN <<>> ELSE SubSeq(b, SetMin(ones), Len(b))

BPad(b, n) == Zeros(n - Len(b)) \o b

\* a >= b, both stripped: the longer is the larger; at equal length the first
\* differing bit decides
BGeq(a, b) ==
  IF Len(a) # Len(b) THEN Len(a) > Len(b)
  ELSE LET diff == {i \in 1..Len(a) : a[i] # b[i]}
       IN  diff = {} \/ a[SetMin(diff)] > b[SetMin(diff)]

\* the borrow into bit i of a - b (equal lengths): the nearest lower-order bit
\* where a and b differ generates it, equal bits pass it on
BBorrow(a, b, i) ==
  LET diff == {j \in (i + 1)..Len(a) : a[j] # b[j]}
  IN  IF diff # {} /\ a[SetMin(diff)] < b[SetMin(diff)] THEN 1 ELSE 0

BSubBits(a, b) == [i \in 1..Len(a) |-> (2 + a[i] - b[i] - BBorrow(a, b, i)) % 2]

\* a - b for a >= b
BSub(a, b) == BStrip(BSubBits(a, BPad(b, Len(a))))

\* the carry into bit i of a + b (equal lengths)
BCarry(a, b, i) ==
  LET diff == {j \in (i + 1)..Len(a) : a[j] = b[j]}
  IN  IF diff # {} /\ a[SetMin(diff)] = 1 THEN 1 ELSE 0

BAddBits(a, b) == [i \in 1..Len(a) |-> (a[i] + b[i] + BCarry(a, b, i)) % 2]

BAdd(a, b) ==
  LET n == 1 + (IF Len(a) > Len(b) THEN Len(a) ELSE Len(b))
  IN  BStrip(BAddBits(BPad(a, n), BPad(b, n)))

BShl(a, k) == IF a = <<>> THEN <<>> ELSE a \o Zeros(k)

\* a * b as the sum of a shifted to every 1 bit of b, halving the range
RECURSIVE BMulRange(_, _, _, _)
BMulRange(a, b, lo, hi) ==
  IF lo > hi THEN <<>>
  ELSE IF lo = hi THEN (IF b[lo] = 1 THEN BShl(a, Len(b) - lo) ELSE <<>>)
  ELSE LET mid == (lo + hi) \div 2
       IN  BAdd(BMulRange(a, b, lo, mid), BMulRange(a, b, mid + 1, hi))

BMul(a, b) == BMulRange(a, b, 1, Len(b))

\* one step of long division: bring down one bit of the dividend
BDivStep(b, st, bit) ==
  LET r2 == BStrip(Append(st.r, bit))
  IN  IF BGeq(r2, b) THEN [q |-> Append(st.q, 1), r |-> BSub(r2, b)]
      ELSE [q |-> Append(st.q, 0), r |-> r2]

\* the steps for bits lo..hi of a, in order (the range is halved to keep the
\* evaluation shallow)
RECURSIVE BDivRange(_, _, _, _, _)
BDivRange(a, b, lo, hi, st) ==
  IF lo > hi THEN st
  ELSE IF lo = hi THEN BDivStep(b, st, a[lo])
  ELSE LET mid  == (lo + hi) \div 2
           left == BDivRange(a, b, lo, mid, st)
       IN  IF Len(left.q) >= mid THEN BDivRange(a, b, mid + 1, hi, left) ELSE left

\* long division: [q |-> a div b, r |-> a mod b]
BDivMod(a, b) ==
  LET res == BDivRange(a, b, 1, Len(a), [q |-> <<>>, r |-> <<>>])
  IN  [q |-> BStrip(res.q), r |-> res.r]

RECURSIVE BOfNat(_)
BOfNat(n) == IF n = 0 THEN <<>> ELSE Append(BOfNat(n \div 2), n % 2)

RECURSIVE BToNatRec(_, _)
BToNatRec(b, i) == IF i = 0 THEN 0 ELSE 2 * BToNatRec(b, i - 1) + b[i]

BToNat(b) == BToNatRec(b, Len(b))

(***************************************************************************)
(* Python floats (IEEE-754 binary64), for the values the program reaches:  *)
(* [neg, mant, exp] is (-1)^neg * mant * 2^exp with mant a 53-bit          *)
(* significand (leading bit 1), or <<>> for zero. Every operation rounds   *)
(* its exact result to nearest, ties to even, as the hardware does.        *)
(* Subnormals, infinities and NaN are out of the prices' range.            *)
(***************************************************************************)
MantBits == 53

FZero == [neg |-> FALSE, mant |-> <<>>, exp |-> 0]

\* the float nearest to (-1)^neg * (m + s) * 2^e, where 0 <= s < 1 and
\* sticky says s > 0 (m is long enough for s not to matter when short)
FRound(neg, m, sticky, e) ==
  IF m = <<>> THEN FZero
  ELSE IF Len(m) <= MantBits
  THEN [neg |-> neg, mant |-> m \o Zeros(MantBits - Len(m)),
        exp |-> e - (MantBits - Len(m))]
  ELSE LET drop  == Len(m) - MantBits
           keep  == SubSeq(m, 1, MantBits)
           guard == m[MantBits + 1]
           rest  == sticky \/ \E i \in (MantBits + 2)..Len(m) : m[i] = 1
           up    == guard = 1 /\ (rest \/ keep[MantBits] = 1)
           inc   == IF up THEN BAdd(keep, <<1>>) ELSE keep
       IN  IF Len(inc) > MantBits
           THEN [neg |-> neg, mant |-> SubSeq(inc, 1, MantBits), exp |-> e + drop + 1]
           ELSE [neg |-> neg, mant |-> inc, exp |-> e + drop]

\* float("<n>/<d>") for naturals n and d > 0: the correctly rounded quotient
FloatOfRatio(n, d) ==
  IF n = 0 THEN FZero
  ELSE LET db == BOfNat(d)
           s  == MantBits + 2 + Len(db)
           dm == BDivMod(BShl(BOfNat(n), s), db)
       IN  FRound(FALSE, dm.q, dm.r # <<>>, 0 - s)

FloatOfNat(n) == FloatOfRatio(n, 1)

\* the common exponent two floats are aligned to, and their aligned magnitudes
FAlignExp(x, y) ==
  IF x.mant = <<>> THEN y.exp
  ELSE IF y.mant = <<>> THEN x.exp
  ELSE IF x.exp < y.exp THEN x.exp ELSE y.exp

FAligned(x, e) == BShl(x.mant, x.exp - e)

\* x - y
FSub(x, y) ==
  LET e  == FAlignExp(x, y)
      a  == FAligned(x, e)
      b  == FAligned(y, e)
      sb == ~y.neg
  IN  IF y.mant = <<>> THEN x
      ELSE IF x.mant = <<>> THEN [y EXCEPT !.neg = sb]
      ELSE IF x.neg = sb THEN FRound(x.neg, BAdd(a, b), FALSE, e)
      ELSE IF BGeq(a, b) THEN FRound(x.neg, BSub(a, b), FALSE, e)
      ELSE FRound(sb, BSub(b, a), FALSE, e)

\* x / y for y # 0
FDiv(x, y) ==
  IF x.mant = <<>> THEN FZero
  ELSE LET s  == MantBits + 2
           dm == BDivMod(BShl(x.mant, s), y.mant)
       IN  FRound(x.neg # y.neg, dm.q, dm.r # <<>>, x.exp - s - y.exp)

\* x * y
FMul(x, y) ==
  IF x.mant = <<>> \/ y.mant = <<>> THEN FZero
  ELSE FRound(x.neg # y.neg, BMul(x.mant, y.mant), FALSE, x.exp + y.exp)

\* x > y
FGt(x, y) == LET d == FSub(x, y) IN d.mant # <<>> /\ ~d.neg

\* bool(x): a float is falsy exactly when it is zero
FTruthy(x) == x.mant # <<>>

\* int(x) for x >= 0: truncation toward zero
FTrunc(x) ==
  IF x.mant = <<>> THEN 0
  ELSE IF x.exp >= 0 THEN BToNat(BShl(x.mant, x.exp))
  ELSE IF 0 - x.exp >= MantBits THEN 0
  ELSE BToNat(SubSeq(x.mant, 1, MantBits + x.exp))

(***************************************************************************)
(* Python values. An optional value (None or a value) is a sequence of     *)
(* length 0 or 1.                                                          *)
(***************************************************************************)
None == <<>>

Some(v) == <<v>>

IsNone(x) == x = <<>>

(***************************************************************************)
(* Texts (the get_text() of an element) are sequences of one-character     *)
(* strings; the regular expressions of the extractor are evaluated on      *)
(* them.                                                                   *)
(***************************************************************************)
Digits == {"0", "1", "2", "3", "4", "5", "6", "7", "8", "9"}

DigitVal(c) ==
  CASE c = "0" -> 0 [] c = "1" -> 1 [] c = "2" -> 2 [] c = "3" -> 3
    [] c = "4" -> 4 [] c = "5" -> 5 [] c = "6" -> 6 [] c = "7" -> 7
    [] c = "8" -> 8 [] c = "9" -> 9

Whitespace == {" "}

\* str.strip(): leading and trailing whitespace removed
Strip(t) ==
  LET solid == {i \in 1..Len(t) : t[i] \notin Whitespace}
  IN  IF solid = {} THEN <<>>
      ELSE SubSeq(t, SetMin(solid), CHOOSE i \in solid : \A j \in solid : j <= i)

\* the length of the longest run of characters of S that starts at t[i]
RunLen(t, i, S) ==
  LET stops == {j \in i..Len(t) : t[j] \notin S}
  IN  (IF stops = {} THEN Len(t) + 1 ELSE SetMin(stops)) - i

\* re.search(r'[\d,]+\.\d+', t): the leftmost match, each + taking all it can
DecimalMatchAt(t, i) ==
  LET r == RunLen(t, i, Digits \cup {","})
  IN  /\ r >= 1
      /\ i + r <= Len(t)
      /\ t[i + r] = "."
      /\ RunLen(t, i + r + 1, Digits) >= 1

DecimalSearch(t) ==
  LET starts == {i \in 1..Len(t) : DecimalMatchAt(t, i)}
  IN  IF starts = {} THEN None
      ELSE LET i == SetMin(starts)
               r == RunLen(t, i, Digits \cup {","})
           IN  Some(SubSeq(t, i, i + r + RunLen(t, i + r + 1, Digits)))

\* re.search(r'\d+', t)
IntSearch(t) ==
  LET starts == {i \in 1..Len(t) : t[i] \in Digits}
  IN  IF starts = {} THEN None
      ELSE LET i == SetMin(starts)
           IN  Some(SubSeq(t, i, i + RunLen(t, i, Digits) - 1))

\* re.search(r'(\d+)%', t): group 1 of the leftmost match
PercentSearch(t) ==
  LET starts == {i \in 1..Len(t) : /\ t[i] \in Digits
                                   /\ i + RunLen(t, i, Digits) <= Len(t)
                                   /\ t[i + RunLen(t, i, Digits)] = "%"}
  IN  IF starts = {} THEN None
      ELSE LET i == SetMin(starts)
           IN  Some(SubSeq(t, i, i + RunLen(t, i, Digits) - 1))

\* s.replace(',', '')
RemoveCommas(t) == SelectSeq(t, LAMBDA c : c # ",")

\* int(s) for a string of digits
RECURSIVE IntOfDigits(_)
IntOfDigits(t) ==
  IF t = <<>> THEN 0
  ELSE 10 * IntOfDigits(SubSeq(t, 1, Len(t) - 1)) + DigitVal(t[Len(t)])

RECURSIVE Pow10(_)
Pow10(k) == IF k = 0 THEN 1 ELSE 10 * Pow10(k - 1)

\* float(s) for s = digits "." digits, or digits alone: the nearest float to
\* the decimal the string denotes
FloatOfText(t) ==
  LET dots == {i \in 1..Len(t) : t[i] = "."}
  IN  IF dots = {} THEN FloatOfNat(IntOfDigits(t))
      ELSE LET d == SetMin(dots)
           IN  FloatOfRatio(IntOfDigits(SubSeq(t, 1, d - 1) \o SubSeq(t, d + 1, Len(t))),
                            Pow10(Len(t) - d))

(***************************************************************************)
(* URLs and query strings are sequences of lexical tokens: the separators  *)
(* "?", "&", "=", "#", "/", the path markers, and text atoms (a run of     *)
(* characters holding no separator). A string operation of the source acts *)
(* on the tokens as it acts on the characters.                             *)
(***************************************************************************)
AFFILIATE_TAG == "nicdav09-20"

SiteOrigin == "https://www.amazon.com"

\* an origin whose host opens an IPv6 bracket and never closes it
BracketOrigin == "https://[www.amazon.com"

\* the first tokens for which url.startswith('http') holds
HttpOrigins == {SiteOrigin, BracketOrigin}

\* the tokens that begin with the character "/"
SlashTokens == {"/", "/dp/", "/product/", "/gp"}

Positions(s, toks) == {i \in 1..Len(s) : s[i] \in toks}

\* s.split(sep)[0] and, when sep occurs, the rest after its first occurrence
BeforeFirst(s, toks) ==
  IF Positions(s, toks) = {} THEN s ELSE SubSeq(s, 1, SetMin(Positions(s, toks)) - 1)

AfterFirst(s, toks) ==
  IF Positions(s, toks) = {} THEN <<>>
  ELSE SubSeq(s, SetMin(Positions(s, toks)) + 1, Len(s))

\* s.split(sep)
RECURSIVE SplitOn(_, _)
SplitOn(s, sep) ==
  IF Positions(s, {sep}) = {} THEN <<s>>
  ELSE <<BeforeFirst(s, {sep})>> \o SplitOn(AfterFirst(s, {sep}), sep)

\* sep.join(pieces)
RECURSIVE JoinWith(_, _)
JoinWith(pieces, sep) ==
  IF pieces = <<>> THEN <<>>
  ELSE IF Len(pieces) = 1 THEN pieces[1]
  ELSE pieces[1] \o <<sep>> \o JoinWith(Tail(pieces), sep)

MapSeq(Op(_), s) == <<>> \o [i \in 1..Len(s) |-> Op(s[i])]

\* urllib.parse.unquote after replace('+', ' '), token by token: an escaped
\* separator becomes the character it stands for, as data
UnquoteTok(t) ==
  CASE t = "%74ag" -> "tag"
    [] t = "%3D" -> "="
    [] t = "%26" -> "&"
    [] t = "%3F" -> "?"
    [] t = "%23" -> "#"
    [] t = "a%20b" -> "a b"
    [] t = "a+b" -> "a b"
    [] OTHER -> t

Unquote(s) == MapSeq(UnquoteTok, s)

\* urllib.parse.quote_plus, token by token: everything but letters, digits
\* and "_.-~" is escaped, a space becomes "+"
QuotePlusTok(t) ==
  CASE t = "=" -> "%3D"
    [] t = "&" -> "%26"
    [] t = "?" -> "%3F"
    [] t = "#" -> "%23"
    [] t = "/" -> "%2F"
    [] t = "a b" -> "a+b"
    [] OTHER -> t

QuotePlus(s) == MapSeq(QuotePlusTok, s)

\* urlparse raises ValueError("Invalid IPv6 URL") when the host has a "["
\* without its "]"
UrlparseRaises(url) == url # <<>> /\ url[1] = BracketOrigin

\* urlparse: the fragment is cut at the first "#", then the query at the
\* first "?"; scheme, netloc, path and params stay together in head
Urlparse(url) ==
  LET rest == BeforeFirst(url, {"#"})
  IN  [head     |-> BeforeFirst(rest, {"?"}),
       query    |-> AfterFirst(rest, {"?"}),
       fragment |-> AfterFirst(url, {"#"})]

\* urlunparse: an empty query or fragment is left out with its separator
Urlunparse(head, query, fragment) ==
  head \o (IF query = <<>> THEN <<>> ELSE <<"?">> \o query)
       \o (IF fragment = <<>> THEN <<>> ELSE <<"#">> \o fragment)

\* parse_qsl: the name=value pairs of a query string, split on "&"; an empty
\* piece, a piece without "=" and a pair with an empty value are skipped
\* (keep_blank_values is False)
ParseQsl(query) ==
  LET pieces == SplitOn(query, "&")
      kept   == SelectSeq(pieces, LAMBDA p : /\ p # <<>>
                                             /\ Positions(p, {"="}) # {}
                                             /\ AfterFirst(p, {"="}) # <<>>)
  IN  MapSeq(LAMBDA p : [name  |-> Unquote(BeforeFirst(p, {"="})),
                         value |-> Unquote(AfterFirst(p, {"="}))], kept)

\* parse_qs: a dict name -> list of values, as the sequence of its items in
\* insertion order
GroupPairs(pairs) ==
  MapSeq(LAMBDA i : [name   |-> pairs[i].name,
                     values |-> MapSeq(LAMBDA q : q.value,
                                       SelectSeq(pairs, LAMBDA q : q.name = pairs[i].name))],
         SelectSeq(<<>> \o [i \in 1..Len(pairs) |-> i],
                   LAMBDA i : \A j \in 1..(i - 1) : pairs[j].name # pairs[i].name))

ParseQs(query) == GroupPairs(ParseQsl(query))

\* urlencode(d, doseq=True)
UrlencodeItem(item) ==
  JoinWith(MapSeq(LAMBDA v : QuotePlus(item.name) \o <<"=">> \o QuotePlus(v), item.values), "&")

Urlencode(d) == JoinWith(MapSeq(UrlencodeItem, d), "&")

TagName == <<"tag">>

\* del d[name]
DictDel(d, name) == SelectSeq(d, LAMBDA item : item.name # name)

\* d[name] = values: an existing key keeps its place, a new key goes last
DictSet(d, name, values) ==
  IF \E i \in 1..Len(d) : d[i].name = name
  THEN MapSeq(LAMBDA item : IF item.name = name
                            THEN [name |-> name, values |-> values] ELSE item, d)
  ELSE Append(d, [name |-> name, values |-> values])

\* 'tag' in query_params: del query_params['tag']
RemoveExistingTag(d) ==
  IF \E i \in 1..Len(d) : d[i].name = TagName THEN DictDel(d, TagName) ELSE d

\* the except branch of _generate_affiliate_link: the tag is concatenated
FallbackLink(product_url, tag) ==
  IF Positions(product_url, {"?"}) # {}
  THEN product_url \o <<"&", "tag", "=", tag>>
  ELSE product_url \o <<"?", "tag", "=", tag>>

\* AmazonDealFinder._generate_affiliate_link (enhanced variant)
\* the try branch, from the parsed URL on
RebuildWithTag(parsed_url, tag) ==
  Urlunparse(parsed_url.head,
             Urlencode(DictSet(RemoveExistingTag(ParseQs(parsed_url.query)),
                               TagName, <<<<tag>>>>)),
             parsed_url.fragment)

generate_affiliate_link(product_url, tag) ==
  IF UrlparseRaises(product_url) THEN FallbackLink(product_url, tag)
  ELSE RebuildWithTag(Urlparse(product_url), tag)

\* p.startswith('tag=')
StartsWithTagEq(p) == Len(p) >= 2 /\ p[1] = "tag" /\ p[2] = "="

\* AmazonDealFinder._generate_affiliate_link (persistent variant): the URL
\* is cut at its first "?" and the parameters at "&", as plain strings
persistent_generate_affiliate_link(product_url, tag) ==
  IF Positions(product_url, {"?"}) # {}
  THEN LET base_url        == BeforeFirst(product_url, {"?"})
           param_list      == SplitOn(AfterFirst(product_url, {"?"}), "&")
           filtered_params == SelectSeq(param_list, LAMBDA p : ~StartsWithTagEq(p))
       IN  IF filtered_params # <<>>
           THEN base_url \o <<"?">> \o JoinWith(filtered_params, "&")
                         \o <<"&", "tag", "=", tag>>
           ELSE base_url \o <<"?", "tag", "=", tag>>
  ELSE product_url \o <<"?", "tag", "=", tag>>

(***************************************************************************)
(* A fragment is one candidate element of a page, given by what the        *)
(* selector cascades of the extractor find in it:                          *)
(*   hrefs     the href of every anchor inside the element, document order *)
(*   outer     for each ancestor (nearest first) the hrefs of the anchors  *)
(*             it adds around the element                                  *)
(*   title, price, original, badge                                         *)
(*             the text of the first element a cascade matches, or None    *)
(*   sponsored whether the element holds a sponsored-label icon            *)
(***************************************************************************)
UnknownTitle == <<"Unknown Product">>

HasDp(href) == Positions(href, {"/dp/"}) # {}

HasProduct(href) == Positions(href, {"/product/"}) # {}

HasGpProduct(href) ==
  \E i \in 1..(Len(href) - 1) : href[i] = "/gp" /\ href[i + 1] = "/product/"

\* select_one over the anchors: the first one whose href passes the test
FirstHref(hrefs, Test(_)) ==
  LET found == SelectSeq(hrefs, Test)
  IN  IF found = <<>> THEN None ELSE Some(found[1])

\* the selectors a[href*="/dp/"], a[href*="/gp/product/"], a[href*="/product/"]
\* tried in this order
DirectLink(hrefs) ==
  IF ~IsNone(FirstHref(hrefs, HasDp)) THEN FirstHref(hrefs, HasDp)
  ELSE IF ~IsNone(FirstHref(hrefs, HasGpProduct)) THEN FirstHref(hrefs, HasGpProduct)
  ELSE FirstHref(hrefs, HasProduct)

\* the anchors inside the k-th ancestor: the element's own and all that the
\* ancestors up to the k-th add
RECURSIVE AncestorHrefs(_, _)
AncestorHrefs(frag, k) ==
  IF k = 0 THEN frag.hrefs ELSE AncestorHrefs(frag, k - 1) \o frag.outer[k]

MaxParentLevels == 3

\* up to 3 parents are asked for an a[href*="/dp/"]; the nearest one that has
\* one decides
ParentLink(frag) ==
  LET top    == IF Len(frag.outer) < MaxParentLevels THEN Len(frag.outer)
                ELSE MaxParentLevels
      levels == {k \in 1..top : ~IsNone(FirstHref(AncestorHrefs(frag, k), HasDp))}
  IN  IF levels = {} THEN None
      ELSE FirstHref(AncestorHrefs(frag, SetMin(levels)), HasDp)

\* url.startswith('http'), else the site origin is put in front
MakeAbsolute(href) ==
  IF href # <<>> /\ href[1] \in HttpOrigins THEN href ELSE <<SiteOrigin>> \o href

\* "if not url": the second lookup counts only when the first found nothing
FirstSome(first, second) == IF IsNone(first) THEN second ELSE first

AbsoluteOf(found) == IF IsNone(found) THEN None ELSE Some(MakeAbsolute(found[1]))

DirectOnly(frag) == AbsoluteOf(DirectLink(frag.hrefs))

\* the product URL of a fragment on a deal page, or None
ResolveUrl(frag) == AbsoluteOf(FirstSome(DirectLink(frag.hrefs), ParentLink(frag)))

\* u.split(marker)[1].split('/')[0].split('?')[0]
AsinAfter(u, marker) ==
  BeforeFirst(BeforeFirst(AfterFirst(u, {marker}), SlashTokens), {"?"})

\* the ASIN of a deal page URL: '/dp/' is looked for first, then '/product/'
\* (which every '/gp/product/' URL contains too)
ExtractAsin(u) ==
  IF HasDp(u) THEN Some(AsinAfter(u, "/dp/"))
  ELSE IF HasProduct(u) THEN Some(AsinAfter(u, "/product/"))
  ELSE IF HasGpProduct(u) THEN Some(AsinAfter(u, "/product/"))
  ELSE None

\* title_elem.get_text().strip(), or the placeholder
TitleOf(frag) == IF IsNone(frag.title) THEN UnknownTitle ELSE Strip(frag.title[1])

\* the price a deal page's price text states: its first decimal number, else
\* its first integer, else None
primary_parse_price(text) ==
  LET price_text == Strip(text)
      decimal    == DecimalSearch(price_text)
      integer    == IntSearch(price_text)
  IN  IF ~IsNone(decimal) THEN Some(FloatOfText(RemoveCommas(decimal[1])))
      ELSE IF ~IsNone(integer) THEN Some(FloatOfText(integer[1]))
      ELSE None

\* the price a search result's price text states: decimal numbers only
search_parse_price(text) ==
  LET price_text == Strip(text)
      decimal    == DecimalSearch(price_text)
  IN  IF ~IsNone(decimal) THEN Some(FloatOfText(RemoveCommas(decimal[1])))
      ELSE None

\* the discount a badge states: the number before the first "%", else the
\* first number of its text, else 0
badge_discount(elem) ==
  IF IsNone(elem) THEN 0
  ELSE LET discount_text == Strip(elem[1])
           percent       == PercentSearch(discount_text)
           number        == IntSearch(discount_text)
       IN  IF ~IsNone(percent) THEN IntOfDigits(percent[1])
           ELSE IF ~IsNone(number) THEN IntOfDigits(number[1])
           ELSE 0

\* int(((original_price - current_price) / original_price) * 100)
percent_off(original_price, current_price) ==
  FTrunc(FMul(FDiv(FSub(original_price, current_price), original_price),
              FloatOfNat(100)))

(***************************************************************************)
(* The price texts of the model, and the float arithmetic on the prices    *)
(* they state, computed once.                                              *)
(***************************************************************************)
PriceTexts ==
  { <<"$", "5", "0">>,
    <<"$", "2", "1">>,
    <<"$", "0">>,
    <<"$", "5", "0", ".", "0", "0">>,
    <<"$", "2", "1", ".", "0", "0">>,
    <<"$", "4", "9", ".", "9", "9">>,
    <<" ", "$", "1", "9", ".", "9", "9", " ">>,
    <<"1", ",", "2", "9", "9", ".", "5", "0">>,
    <<"F", "R", "E", "E">> }

PrimaryPrices == [text \in PriceTexts |-> primary_parse_price(text)]

SearchPrices == [text \in PriceTexts |-> search_parse_price(text)]

\* the price of the element a price cascade found, if it found one
PrimaryPriceOf(elem) == IF IsNone(elem) THEN None ELSE PrimaryPrices[elem[1]]

SearchPriceOf(elem) == IF IsNone(elem) THEN None ELSE SearchPrices[elem[1]]

\* every value a price field can hold
PriceValues ==
  {None} \cup {PrimaryPrices[text] : text \in PriceTexts}
         \cup {SearchPrices[text] : text \in PriceTexts}

\* every pair of values the two price fields can hold
PricePairs == {<<original, current>> : original \in PriceValues, current \in PriceValues}

\* "original_price and current_price": both known and neither is 0.0
BothPricesTruthy(original_price, current_price) ==
  /\ ~IsNone(original_price) /\ FTruthy(original_price[1])
  /\ ~IsNone(current_price) /\ FTruthy(current_price[1])

\* the discount the two prices give, 0 unless
\* "original_price and current_price and original_price > current_price"
price_discount(original_price, current_price) ==
  IF /\ BothPricesTruthy(original_price, current_price)
     /\ FGt(original_price[1], current_price[1])
  THEN percent_off(original_price[1], current_price[1])
  ELSE 0

PriceDiscounts ==
  [pair \in PricePairs |-> price_discount(pair[1], pair[2])]

\* original_price - current_price when both are truthy, else 0
dollar_amount_off(original_price, current_price) ==
  IF BothPricesTruthy(original_price, current_price)
  THEN FSub(original_price[1], current_price[1])
  ELSE FZero

DollarAmounts ==
  [pair \in PricePairs |-> dollar_amount_off(pair[1], pair[2])]

\* the text of the post title, kept as its parts: the prices are the values
\* handed to the two-decimal formatter
format_post_title(title, discount, original_price, current_price) ==
  [ discount   |-> discount,
    title      |-> title,
    price_info |-> IF BothPricesTruthy(original_price, current_price)
                   THEN Some([ current    |-> current_price[1],
                               was        |-> original_price[1],
                               dollar_off |-> DollarAmounts[<<original_price,
                                                              current_price>>] ])
                   ELSE None ]

(***************************************************************************)
(* The deal finder: its configuration, the locals of find_deals, of        *)
(* _find_deals_by_search and of _get_with_retries, and the control point.  *)
(***************************************************************************)
VARIABLES
  affiliate_tag,   \* self.affiliate_tag
  min_discount,    \* self.min_discount
  max_items,       \* the argument of find_deals
  pc,              \* the control point
  deals,           \* find_deals: the list of accepted records
  dropped,         \* find_deals: the record it dropped last as a duplicate
  source_at,       \* find_deals: index of the deal page in deal_urls
  remaining,       \* elements of the current page not yet visited
  caller,          \* who called _get_with_retries
  attempt,         \* _get_with_retries: the loop variable
  requests,        \* GET requests the current call has issued
  slept,           \* the delays the current call has slept, in order
  outcomes,        \* how each attempt of the current call ended, in order
  response,        \* what the last call returned
  fetched,         \* the calls of _get_with_retries that have returned, in order;
                   \* the last one tells whether it returned a response
  search_max,      \* the argument of _find_deals_by_search
  search_deals,    \* _find_deals_by_search: its list of records
  queries,         \* the shuffled search queries
  query_at,        \* index of the search query in queries
  more_at,         \* find_deals: index of the record being merged
  returned,        \* what find_deals returned
  call             \* a single call of a pure function, with its result

vars ==
  << affiliate_tag, min_discount, max_items, pc, deals, dropped, source_at, remaining,
     caller, attempt, requests, slept, outcomes, response, fetched, search_max,
     search_deals, queries, query_at, more_at, returned, call >>

(***************************************************************************)
(* _extract_product_info and the per-element processing of the two loops.  *)
(***************************************************************************)
\* the discount of a deal page element: the badge's, and the prices' when the
\* badge gives 0
BadgeOrPrices(stated, original_price, current_price) ==
  IF stated = 0 THEN PriceDiscounts[<<original_price, current_price>>] ELSE stated

primary_discount(badge, original_price, current_price) ==
  BadgeOrPrices(badge_discount(badge), original_price, current_price)

\* _extract_product_info: None, or Some(the record it returns)
\* the end of _extract_product_info: no URL or a discount below the
\* threshold give None, else the record is returned
ExtractedInfo(frag, found, current_price, original_price, discount_percent) ==
  IF IsNone(found) THEN None
  ELSE IF discount_percent < min_discount THEN None
  ELSE Some([ title            |-> TitleOf(frag),
              url              |-> found[1],
              asin             |-> ExtractAsin(found[1]),
              current_price    |-> current_price,
              original_price   |-> original_price,
              discount_percent |-> discount_percent ])

ExtractWithPrices(frag, found, current_price, original_price) ==
  ExtractedInfo(frag, found, current_price, original_price,
                primary_discount(frag.badge, original_price, current_price))

extract_product_info(frag) ==
  ExtractWithPrices(frag, ResolveUrl(frag), PrimaryPriceOf(frag.price),
                    PrimaryPriceOf(frag.original))

\* a faulty completion: the link of the record is its url as found
Unlinked(info) ==
  [ title             |-> info.title,
    url               |-> info.url,
    asin              |-> info.asin,
    current_price     |-> info.current_price,
    original_price    |-> info.original_price,
    discount_percent  |-> info.discount_percent,
    affiliate_link    |-> info.url,
    post_title        |-> format_post_title(info.title, info.discount_percent,
                                            info.original_price, info.current_price),
    dollar_amount_off |-> DollarAmounts[<<info.original_price, info.current_price>>] ]

\* the three fields both loops add to a record before they keep it
Completed(info) ==
  [ title             |-> info.title,
    url               |-> info.url,
    asin              |-> info.asin,
    current_price     |-> info.current_price,
    original_price    |-> info.original_price,
    discount_percent  |-> info.discount_percent,
    affiliate_link    |-> generate_affiliate_link(info.url, affiliate_tag),
    post_title        |-> format_post_title(info.title, info.discount_percent,
                                            info.original_price, info.current_price),
    dollar_amount_off |-> DollarAmounts[<<info.original_price, info.current_price>>] ]

\* find_deals, the guard of its element loop:
\* product_info and product_info.get('discount_percent', 0) >= self.min_discount
primary_qualifies(product_info) ==
  ~IsNone(product_info) /\ product_info[1].discount_percent >= min_discount

\* the record the deal page loop makes of an element, or None
CompletedIfQualifies(product_info) ==
  IF primary_qualifies(product_info) THEN Some(Completed(product_info[1])) ELSE None

primary_record(frag) == CompletedIfQualifies(extract_product_info(frag))

\* a faulty duplicate test: nothing is ever a duplicate
NeverDuplicate(found, deal) == FALSE

\* a faulty duplicate test: the url and title of every record seen count,
\* those of the record dropped last too
DuplicateOfSeen(found, deal) ==
  \/ \E i \in 1..Len(found) : found[i].url = deal.url \/ found[i].title = deal.title
  \/ \E lost \in dropped : lost.url = deal.url \/ lost.title = deal.title

\* existing_deal.get('url') == deal.get('url') or
\* existing_deal.get('title') == deal.get('title'), for some existing deal
IsDuplicate(found, deal) ==
  \E i \in 1..Len(found) : found[i].url = deal.url \/ found[i].title = deal.title

\* a faulty append: the new record is put at the head of the list
PrependUnlessDuplicate(found, deal) ==
  IF IsDuplicate(found, deal) THEN found ELSE <<deal>> \o found

\* the list after the dedup check and the append
AppendUnlessDuplicate(found, deal) ==
  IF IsDuplicate(found, deal) THEN found ELSE Append(found, deal)

\* an element that gave no record leaves the list as it is
AppendRecord(found, made) ==
  IF IsNone(made) THEN found ELSE AppendUnlessDuplicate(found, made[1])

\* the record dropped last, after the dedup check of one more record
DropIfDuplicate(found, lost, deal) ==
  IF IsDuplicate(found, deal) THEN {deal} ELSE lost

\* the list and the record dropped last after an element was processed
KeepOrDrop(found, lost, made) ==
  [ deals   |-> AppendRecord(found, made),
    dropped |-> IF IsNone(made) THEN lost ELSE DropIfDuplicate(found, lost, made[1]) ]

\* a faulty append: the new record is put at the head of the list
PrependAny(found, made) == IF IsNone(made) THEN found ELSE <<made[1]>> \o found

\* the search loop appends with no check
AppendAny(found, made) == IF IsNone(made) THEN found ELSE Append(found, made[1])

\* a search result is looked at only for an a[href*="/dp/"]
SearchUrl(frag) == AbsoluteOf(FirstHref(frag.hrefs, HasDp))

SearchAsin(u) == IF HasDp(u) THEN Some(AsinAfter(u, "/dp/")) ELSE None

\* a faulty threshold test: every search result passes
search_accepts_all(discount_percent) == TRUE

\* if discount_percent >= self.min_discount
search_qualifies(discount_percent) == discount_percent >= min_discount

\* the record the search loop makes of a result, or None
SearchedInfo(frag, found, current_price, original_price, discount_percent) ==
  IF frag.sponsored THEN None
  ELSE IF IsNone(found) THEN None
  ELSE IF ~search_qualifies(discount_percent) THEN None
  ELSE Some(Completed([ title            |-> TitleOf(frag),
                        url              |-> found[1],
                        asin             |-> SearchAsin(found[1]),
                        current_price    |-> current_price,
                        original_price   |-> original_price,
                        discount_percent |-> discount_percent ]))

SearchWithPrices(frag, found, current_price, original_price) ==
  SearchedInfo(frag, found, current_price, original_price,
               PriceDiscounts[<<original_price, current_price>>])

search_record(frag) ==
  SearchWithPrices(frag, SearchUrl(frag), SearchPriceOf(frag.price),
                   SearchPriceOf(frag.original))

\* a Python slice items[:n]
SliceTo(items, n) ==
  LET stop == IF n >= 0 THEN n ELSE Len(items) + n
  IN  SubSeq(items, 1, IF stop > Len(items) THEN Len(items) ELSE stop)

(***************************************************************************)
(* The pages of the model: the elements a fetched page can hold.           *)
(***************************************************************************)
Frag(hrefs, outer, title, price, original, badge, sponsored) ==
  [ hrefs |-> hrefs, outer |-> outer, title |-> title, price |-> price,
    original |-> original, badge |-> badge, sponsored |-> sponsored ]

HrefA == <<"/dp/", "B01">>

HrefB == <<SiteOrigin, "/dp/", "B02", "?", "ref", "=", "x">>

HrefC == <<"/dp/", "B03", "/", "ref">>

HrefHelp == <<"/", "help">>

TitleA == <<"Deal A">>

TitleB == <<" ", "Deal B", " ">>

Text50 == <<"$", "5", "0", ".", "0", "0">>

Text21 == <<"$", "2", "1", ".", "0", "0">>

Text49 == <<"$", "4", "9", ".", "9", "9">>

Fragments ==
  { Frag(<<HrefA>>, <<>>, Some(TitleA), Some(Text21), Some(Text50), None, FALSE),
    Frag(<<HrefHelp, HrefA>>, <<>>, Some(TitleB), Some(Text21), Some(Text50), None, FALSE),
    Frag(<<HrefB>>, <<>>, Some(TitleA), Some(Text21), Some(Text50), None, FALSE),
    Frag(<<HrefB>>, <<>>, Some(TitleB), Some(Text21), Some(Text50), None, FALSE),
    Frag(<<HrefC>>, <<>>, None, Some(Text49), Some(Text50), None, FALSE),
    Frag(<<HrefC>>, <<>>, None, Some(Text21), Some(Text50), None, TRUE),
    Frag(<<HrefHelp>>, <<>>, Some(TitleA), Some(Text21), Some(Text50), None, FALSE) }

(***************************************************************************)
(* Bounds of the model and constants of the program.                       *)
(***************************************************************************)
MIN_DISCOUNT_PERCENT == 50

MAX_ITEMS == 100

MAX_RETRIES == 3

RETRY_DELAY == 2

\* number of deal pages in deal_urls
NumSources == 2

\* number of search queries
NumQueries == 2

\* most elements a selector finds on one page
MaxFrags == 2

\* largest max_items find_deals is called with
MaxItems == 2

MinDiscounts == {0, MIN_DISCOUNT_PERCENT}

\* random.shuffle: any order of the queries
Shuffles ==
  {order \in [1..NumQueries -> 1..NumQueries] :
     \A i, j \in 1..NumQueries : order[i] = order[j] => i = j}

NoCall == [op |-> "none"]

Init ==
  /\ affiliate_tag = AFFILIATE_TAG
  /\ min_discount \in MinDiscounts
  /\ max_items \in 0..MaxItems
  /\ pc = "primary"
  /\ deals = <<>>
  /\ dropped = {}
  /\ source_at = 1
  /\ remaining = 0
  /\ caller = "none"
  /\ attempt = 0
  /\ requests = 0
  /\ slept = <<>>
  /\ outcomes = <<>>
  /\ response = "pending"
  /\ fetched = <<>>
  /\ search_max = 0
  /\ search_deals = <<>>
  /\ queries = <<>>
  /\ query_at = 1
  /\ more_at = 1
  /\ returned = None
  /\ call = NoCall

(***************************************************************************)
(* _get_with_retries                                                       *)
(***************************************************************************)
fetcher_vars == <<caller, attempt, requests, slept, outcomes, response>>

finder_vars == <<deals, source_at, remaining>>

search_vars == <<search_max, search_deals, queries, query_at>>

config_vars == <<affiliate_tag, min_discount, max_items>>

\* the call that returns: which loop made it, for which deal page or query,
\* and whether it returned a response
Fetch(ok) ==
  [who |-> caller, at |-> IF caller = "primary" THEN source_at ELSE query_at, ok |-> ok]

\* the earlier calls: which loop made each, and for which deal page or query
Places(log) == [i \in 1..Len(log) |-> [who |-> log[i].who, at |-> log[i].at]]

ThrottlingStatuses == {429, 503}

OtherStatuses == {404}

\* a faulty loop bound: one attempt too many
OneMoreAttempt == attempt <= MAX_RETRIES

\* for attempt in range(max_retries)
MoreAttempts == attempt < MAX_RETRIES

\* a faulty backoff: the base delay after every failure
FlatDelay(status) == RETRY_DELAY

\* time.sleep(delay * 2) after a 503 or 429, time.sleep(delay) after another status
DelayAfter(status) ==
  IF status \in ThrottlingStatuses THEN RETRY_DELAY * 2 ELSE RETRY_DELAY

\* how an attempt ended: with a response of some status, or with a
\* RequestException raised by session.get
Answered(status) == [kind |-> "status", status |-> status]

Raised == [kind |-> "raised", status |-> 0]

\* the call: the frame of _get_with_retries is new
CallFetcher(who) ==
  /\ caller' = who
  /\ attempt' = 0
  /\ requests' = 0
  /\ slept' = <<>>
  /\ outcomes' = <<>>
  /\ response' = "pending"
  /\ pc' = "get"

\* the caller has taken the result: the frame is gone
DropFetcher ==
  /\ caller' = "none"
  /\ attempt' = 0
  /\ requests' = 0
  /\ slept' = <<>>
  /\ outcomes' = <<>>
  /\ response' = "pending"

\* an attempt answered with status 200: the response is returned
GetOk ==
  /\ pc = "get"
  /\ MoreAttempts
  /\ requests' = requests + 1
  /\ response' = "200"
  /\ outcomes' = Append(outcomes, Answered(200))
  /\ fetched' = Append(Places(fetched), Fetch(TRUE))
  /\ pc' = "got"
  /\ UNCHANGED <<caller, attempt, slept>>
  /\ UNCHANGED <<config_vars, finder_vars, search_vars, more_at, returned, call>>
  /\ UNCHANGED dropped

\* an attempt answered with another status: sleep, then the next attempt
GetStatus(status) ==
  /\ pc = "get"
  /\ MoreAttempts
  /\ requests' = requests + 1
  /\ slept' = Append(slept, DelayAfter(status))
  /\ outcomes' = Append(outcomes, Answered(status))
  /\ attempt' = attempt + 1
  /\ UNCHANGED <<caller, response, pc>>
  /\ UNCHANGED <<config_vars, finder_vars, search_vars, more_at, returned, call>>
  /\ UNCHANGED fetched
  /\ UNCHANGED dropped

\* a faulty attempt: no sleep after the failure of the last attempt
RaisesLastUnslept ==
  /\ pc = "get"
  /\ MoreAttempts
  /\ requests' = requests + 1
  /\ slept' = IF attempt + 1 < MAX_RETRIES THEN Append(slept, RETRY_DELAY) ELSE slept
  /\ outcomes' = Append(outcomes, Raised)
  /\ attempt' = attempt + 1
  /\ UNCHANGED <<caller, response, pc>>
  /\ UNCHANGED <<config_vars, finder_vars, search_vars, more_at, returned, call>>
  /\ UNCHANGED fetched
  /\ UNCHANGED dropped

\* an attempt that raised a RequestException: sleep, then the next attempt
GetRaises ==
  /\ pc = "get"
  /\ MoreAttempts
  /\ requests' = requests + 1
  /\ slept' = Append(slept, RETRY_DELAY)
  /\ outcomes' = Append(outcomes, Raised)
  /\ attempt' = attempt + 1
  /\ UNCHANGED <<caller, response, pc>>
  /\ UNCHANGED <<config_vars, finder_vars, search_vars, more_at, returned, call>>
  /\ UNCHANGED fetched
  /\ UNCHANGED dropped

\* the loop has ended: None is returned
GetExhausted ==
  /\ pc = "get"
  /\ ~MoreAttempts
  /\ response' = "None"
  /\ fetched' = Append(Places(fetched), Fetch(FALSE))
  /\ pc' = "got"
  /\ UNCHANGED <<caller, attempt, requests, slept, outcomes>>
  /\ UNCHANGED <<config_vars, finder_vars, search_vars, more_at, returned, call>>
  /\ UNCHANGED dropped

(***************************************************************************)
(* find_deals: the loop over the deal pages                                *)
(***************************************************************************)
\* a faulty budget: one record more than the argument allows
BudgetPlusOne == max_items + 1

\* the item budget every check of find_deals compares against
ItemBudget == max_items

\* if len(deals) >= max_items: break, at the head of the loop over deal_urls
PrimaryBudgetMet ==
  /\ pc = "primary"
  /\ source_at <= NumSources
  /\ Len(deals) >= ItemBudget
  /\ pc' = "tail"
  /\ UNCHANGED <<config_vars, finder_vars, fetcher_vars, search_vars, more_at,
                 returned, call>>
  /\ UNCHANGED fetched
  /\ UNCHANGED dropped

\* deal_urls is exhausted
PrimaryExhausted ==
  /\ pc = "primary"
  /\ source_at > NumSources
  /\ pc' = "tail"
  /\ UNCHANGED <<config_vars, finder_vars, fetcher_vars, search_vars, more_at,
                 returned, call>>
  /\ UNCHANGED fetched
  /\ UNCHANGED dropped

\* response = self._get_with_retries(url)
PrimaryFetch ==
  /\ pc = "primary"
  /\ source_at <= NumSources
  /\ Len(deals) < ItemBudget
  /\ CallFetcher("primary")
  /\ UNCHANGED <<config_vars, finder_vars, search_vars, more_at, returned, call>>
  /\ UNCHANGED fetched
  /\ UNCHANGED dropped

\* a faulty skip: a failed deal page ends the loop over the deal pages
PastLastSource == NumSources + 1

\* if not response: continue, to the next deal page
NextSource == source_at + 1

\* if not response: continue
PrimarySkip ==
  /\ pc = "got"
  /\ caller = "primary"
  /\ response = "None"
  /\ source_at' = NextSource
  /\ pc' = "primary"
  /\ DropFetcher
  /\ UNCHANGED <<config_vars, deals, remaining, search_vars, more_at, returned, call>>
  /\ UNCHANGED fetched
  /\ UNCHANGED dropped

\* the page is parsed: the primary selectors find primary_count elements, the
\* alternative selectors, asked when the primary ones find none, alt_count
PrimaryPage(primary_count, alt_count) ==
  /\ pc = "got"
  /\ caller = "primary"
  /\ response = "200"
  /\ remaining' = IF primary_count # 0 THEN primary_count ELSE alt_count
  /\ pc' = "primary_elements"
  /\ DropFetcher
  /\ UNCHANGED <<config_vars, deals, source_at, search_vars, more_at, returned, call>>
  /\ UNCHANGED fetched
  /\ UNCHANGED dropped

\* a faulty loop: the budget is looked at between deal pages only
NoElementCheck == FALSE

\* if len(deals) >= max_items, at the head of the loop over the elements
ElementBudgetMet == Len(deals) >= ItemBudget

\* if len(deals) >= max_items: break, at the head of the loop over the elements
PrimaryElementBreak ==
  /\ pc = "primary_elements"
  /\ remaining > 0
  /\ ElementBudgetMet
  /\ source_at' = source_at + 1
  /\ pc' = "primary"
  /\ UNCHANGED <<config_vars, deals, remaining, fetcher_vars, search_vars, more_at, returned, call>>
  /\ UNCHANGED fetched
  /\ UNCHANGED dropped

\* one element of the page: extracted, completed, checked against the list
PrimaryElement(frag) ==
  /\ pc = "primary_elements"
  /\ remaining > 0
  /\ ~ElementBudgetMet
  /\ \E step \in {KeepOrDrop(deals, dropped, primary_record(frag))} :
       deals' = step.deals /\ dropped' = step.dropped
  /\ remaining' = remaining - 1
  /\ UNCHANGED <<config_vars, source_at, pc, fetcher_vars, search_vars, more_at,
                 returned, call>>
  /\ UNCHANGED fetched

\* the elements of the page are exhausted
PrimaryPageEnd ==
  /\ pc = "primary_elements"
  /\ remaining = 0
  /\ source_at' = source_at + 1
  /\ pc' = "primary"
  /\ UNCHANGED <<config_vars, deals, remaining, fetcher_vars, search_vars, more_at,
                 returned, call>>
  /\ UNCHANGED fetched
  /\ UNCHANGED dropped

\* a faulty call of the search: made whatever the list holds
SearchUnasked(order) ==
  /\ pc = "tail"
  /\ search_max' = ItemBudget - Len(deals)
  /\ search_deals' = <<>>
  /\ queries' = order
  /\ query_at' = 1
  /\ pc' = "search"
  /\ UNCHANGED <<config_vars, finder_vars, fetcher_vars, more_at, returned, call>>
  /\ UNCHANGED fetched
  /\ UNCHANGED dropped

(***************************************************************************)
(* find_deals after the loop, and _find_deals_by_search                    *)
(***************************************************************************)
\* if len(deals) < max_items: more_deals = self._find_deals_by_search(...);
\* the queries are shuffled at the head of the callee
StartSearch(order) ==
  /\ pc = "tail"
  /\ Len(deals) < ItemBudget
  /\ search_max' = ItemBudget - Len(deals)
  /\ search_deals' = <<>>
  /\ queries' = order
  /\ query_at' = 1
  /\ pc' = "search"
  /\ UNCHANGED <<config_vars, finder_vars, fetcher_vars, more_at, returned, call>>
  /\ UNCHANGED fetched
  /\ UNCHANGED dropped

\* the budget is met: the search is not called
SkipSearch ==
  /\ pc = "tail"
  /\ Len(deals) >= ItemBudget
  /\ pc' = "return"
  /\ UNCHANGED <<config_vars, finder_vars, fetcher_vars, search_vars, more_at,
                 returned, call>>
  /\ UNCHANGED fetched
  /\ UNCHANGED dropped

\* if len(deals) >= max_items: break, at the head of the loop over the queries
SearchBudgetMet ==
  /\ pc = "search"
  /\ query_at <= NumQueries
  /\ Len(search_deals) >= search_max
  /\ pc' = "merge"
  /\ more_at' = 1
  /\ UNCHANGED <<config_vars, finder_vars, fetcher_vars, search_vars, returned, call>>
  /\ UNCHANGED fetched
  /\ UNCHANGED dropped

\* the queries are exhausted: return deals
SearchExhausted ==
  /\ pc = "search"
  /\ query_at > NumQueries
  /\ pc' = "merge"
  /\ more_at' = 1
  /\ UNCHANGED <<config_vars, finder_vars, fetcher_vars, search_vars, returned, call>>
  /\ UNCHANGED fetched
  /\ UNCHANGED dropped

\* response = self._get_with_retries(search_url)
SearchFetch ==
  /\ pc = "search"
  /\ query_at <= NumQueries
  /\ Len(search_deals) < search_max
  /\ CallFetcher("search")
  /\ UNCHANGED <<config_vars, finder_vars, search_vars, more_at, returned, call>>
  /\ UNCHANGED fetched
  /\ UNCHANGED dropped

\* if not response: continue
SearchSkip ==
  /\ pc = "got"
  /\ caller = "search"
  /\ response = "None"
  /\ query_at' = query_at + 1
  /\ pc' = "search"
  /\ DropFetcher
  /\ UNCHANGED <<config_vars, finder_vars, search_max, search_deals, queries,
                 more_at, returned, call>>
  /\ UNCHANGED fetched
  /\ UNCHANGED dropped

\* the result page is parsed: '.s-result-item' finds count elements
SearchPage(count) ==
  /\ pc = "got"
  /\ caller = "search"
  /\ response = "200"
  /\ remaining' = count
  /\ pc' = "search_elements"
  /\ DropFetcher
  /\ UNCHANGED <<config_vars, deals, source_at, search_vars, more_at, returned, call>>
  /\ UNCHANGED fetched
  /\ UNCHANGED dropped

\* if len(deals) >= max_items: break, at the head of the loop over the results
SearchElementBreak ==
  /\ pc = "search_elements"
  /\ remaining > 0
  /\ Len(search_deals) >= search_max
  /\ query_at' = query_at + 1
  /\ pc' = "search"
  /\ UNCHANGED <<config_vars, deals, source_at, remaining, fetcher_vars, search_max,
                 search_deals, queries, more_at, returned, call>>
  /\ UNCHANGED fetched
  /\ UNCHANGED dropped

\* one search result: a record of it is appended, with no dedup check
SearchElement(frag) ==
  /\ pc = "search_elements"
  /\ remaining > 0
  /\ Len(search_deals) < search_max
  /\ search_deals' = AppendAny(search_deals, search_record(frag))
  /\ remaining' = remaining - 1
  /\ UNCHANGED <<config_vars, deals, source_at, pc, fetcher_vars, search_max,
                 queries, query_at, more_at, returned, call>>
  /\ UNCHANGED fetched
  /\ UNCHANGED dropped

\* the results of the page are exhausted
SearchPageEnd ==
  /\ pc = "search_elements"
  /\ remaining = 0
  /\ query_at' = query_at + 1
  /\ pc' = "search"
  /\ UNCHANGED <<config_vars, finder_vars, fetcher_vars, search_max, search_deals,
                 queries, more_at, returned, call>>
  /\ UNCHANGED fetched
  /\ UNCHANGED dropped

\* a faulty merge: the loop never moves on to the next record
SameMerge == more_at

\* for deal in more_deals: the next record
NextMerge == more_at + 1

\* for deal in more_deals: append it unless it is a duplicate;
\* if len(deals) >= max_items: break
MergeStep ==
  /\ pc = "merge"
  /\ more_at <= Len(search_deals)
  /\ deals' = AppendUnlessDuplicate(deals, search_deals[more_at])
  /\ dropped' = DropIfDuplicate(deals, dropped, search_deals[more_at])
  /\ more_at' = NextMerge
  /\ pc' = IF Len(deals') >= ItemBudget THEN "return" ELSE "merge"
  /\ UNCHANGED <<config_vars, source_at, remaining, fetcher_vars, search_vars,
                 returned, call>>
  /\ UNCHANGED fetched

\* more_deals is exhausted
MergeEnd ==
  /\ pc = "merge"
  /\ more_at > Len(search_deals)
  /\ pc' = "return"
  /\ UNCHANGED <<config_vars, finder_vars, fetcher_vars, search_vars, more_at,
                 returned, call>>
  /\ UNCHANGED fetched
  /\ UNCHANGED dropped

\* return deals[:max_items]
Return ==
  /\ pc = "return"
  /\ returned' = Some(SliceTo(deals, ItemBudget))
  /\ pc' = "done"
  /\ UNCHANGED <<config_vars, finder_vars, fetcher_vars, search_vars, more_at, call>>
  /\ UNCHANGED fetched
  /\ UNCHANGED dropped

Next ==
  \/ GetOk
  \/ \E status \in ThrottlingStatuses \cup OtherStatuses : GetStatus(status)
  \/ GetRaises
  \/ GetExhausted
  \/ PrimaryBudgetMet
  \/ PrimaryExhausted
  \/ PrimaryFetch
  \/ PrimarySkip
  \/ \E primary_count, alt_count \in 0..MaxFrags : PrimaryPage(primary_count, alt_count)
  \/ PrimaryElementBreak
  \/ \E frag \in Fragments : PrimaryElement(frag)
  \/ PrimaryPageEnd
  \/ \E order \in Shuffles : StartSearch(order)
  \/ SkipSearch
  \/ SearchBudgetMet
  \/ SearchExhausted
  \/ SearchFetch
  \/ SearchSkip
  \/ \E count \in 0..MaxFrags : SearchPage(count)
  \/ SearchElementBreak
  \/ \E frag \in Fragments : SearchElement(frag)
  \/ SearchPageEnd
  \/ MergeStep
  \/ MergeEnd
  \/ Return

Spec == Init /\ [][Next]_vars

\* find_deals runs in one thread and every call it makes returns (a request
\* ends by its timeout, a sleep by its delay): a step that can be taken is
\* taken
FairSpec == Spec /\ WF_vars(Next)

(***************************************************************************)
(* _generate_affiliate_link on its own: one URL, rewritten once and then   *)
(* once more, by the enhanced and by the persistent variant.               *)
(***************************************************************************)
\* the finder is not running
Idle ==
  /\ pc = "idle"
  /\ deals = <<>>
  /\ dropped = {}
  /\ source_at = 1
  /\ remaining = 0
  /\ caller = "none"
  /\ attempt = 0
  /\ requests = 0
  /\ slept = <<>>
  /\ outcomes = <<>>
  /\ response = "pending"
  /\ fetched = <<>>
  /\ search_max = 0
  /\ search_deals = <<>>
  /\ queries = <<>>
  /\ query_at = 1
  /\ more_at = 1
  /\ returned = None

finder_state ==
  << pc, deals, dropped, source_at, remaining, caller, attempt, requests, slept, outcomes,
     response, fetched, search_max, search_deals, queries, query_at, more_at,
     returned >>

\* most parameters in the query string of an input URL
MaxParams == 2

\* the pieces a query string is made of: tags, a blank-valued tag, a
\* blank-valued parameter, a repeated parameter, an escaped name, a piece
\* without "=", an empty piece, an escaped value
RawParams ==
  { <<"tag", "=", "OLD">>, <<"tag", "=">>, <<"ref", "=">>, <<"x", "=", "1">>,
    <<"x", "=", "2">>, <<"%74ag", "=", "Q">>, <<"flag">>, <<>>,
    <<"k", "=", "a+b">> }

RECURSIVE QueriesUpTo(_)
QueriesUpTo(n) ==
  IF n = 0 THEN {<<>>}
  ELSE QueriesUpTo(n - 1)
         \cup {Append(q, piece) : q \in {r \in QueriesUpTo(n - 1) : Len(r) = n - 1},
                                  piece \in RawParams}

LinkBases == { <<SiteOrigin, "/dp/", "B01">>, <<BracketOrigin, "/dp/", "B01">> }

LinkFragments == { <<>>, <<"#", "top">> }

\* the URL with the given pieces as its query string
UrlOf(base, pieces, fragment) ==
  base \o (IF pieces = <<>> THEN <<>> ELSE <<"?">> \o JoinWith(pieces, "&")) \o fragment

LinkUrls ==
  {UrlOf(base, pieces, fragment) :
     base \in LinkBases, pieces \in QueriesUpTo(MaxParams), fragment \in LinkFragments}

LinkTags == {AFFILIATE_TAG, "other-21"}

InitLink ==
  /\ Idle
  /\ affiliate_tag \in LinkTags
  /\ min_discount = MIN_DISCOUNT_PERCENT
  /\ max_items = 0
  /\ \E input \in LinkUrls, variant \in {"enhanced", "persistent"} :
       call = [op |-> "link", variant |-> variant, stage |-> "input",
               url |-> input, once |-> <<>>, twice |-> <<>>]

\* the variant's rewriter
Rewrite(variant, link) ==
  IF variant = "enhanced" THEN generate_affiliate_link(link, affiliate_tag)
  ELSE persistent_generate_affiliate_link(link, affiliate_tag)

RewriteOnce ==
  /\ call.op = "link"
  /\ call.stage = "input"
  /\ call' = [call EXCEPT !.stage = "once", !.once = Rewrite(call.variant, call.url)]
  /\ UNCHANGED <<config_vars, finder_state>>

RewriteAgain ==
  /\ call.op = "link"
  /\ call.stage = "once"
  /\ call' = [call EXCEPT !.stage = "twice", !.twice = Rewrite(call.variant, call.once)]
  /\ UNCHANGED <<config_vars, finder_state>>

NextLink == RewriteOnce \/ RewriteAgain

SpecLink == InitLink /\ [][NextLink]_vars

(***************************************************************************)
(* The per-element pipelines on their own: one element, made into a record *)
(* by the deal page loop or by the search loop.                            *)
(***************************************************************************)
HrefGp == <<"/gp", "/product/", "B04", "?", "tag", "=", "OLD">>

HrefBracket == <<BracketOrigin, "/dp/", "B05">>

ElementHrefs ==
  { <<>>, <<HrefHelp, HrefGp, HrefA>>, <<HrefGp>>, <<HrefBracket>> }

ElementOuters == { <<>>, << <<>>, <<HrefB>> >>, << <<>>, <<>>, <<>>, <<HrefB>> >> }

ElementTitles == { None, Some(TitleB) }

ElementPrices == {None} \cup {Some(text) : text \in PriceTexts}

ElementBadges ==
  { None, Some(<<"6", "0", "%">>), Some(<<"1", "5", "0", "%">>),
    Some(<<"T", "o", "p", " ", "7", "5">>), Some(<<"D", "e", "a", "l">>),
    Some(<<" ", "-", "5", "%", " ", "9", "0">>) }

Elements ==
  {Frag(hrefs, outer, title, price, original, badge, sponsored) :
     hrefs \in ElementHrefs, outer \in ElementOuters, title \in ElementTitles,
     price \in ElementPrices, original \in ElementPrices, badge \in ElementBadges,
     sponsored \in BOOLEAN}

InitExtract ==
  /\ Idle
  /\ affiliate_tag = AFFILIATE_TAG
  /\ min_discount \in MinDiscounts
  /\ max_items = 0
  /\ \E frag \in Elements :
       call = [op |-> "extract", stage |-> "input", frag |-> frag, made |-> None]

ExtractPrimary ==
  /\ call.op = "extract"
  /\ call.stage = "input"
  /\ call' = [call EXCEPT !.stage = "primary", !.made = primary_record(call.frag)]
  /\ UNCHANGED <<config_vars, finder_state>>

ExtractSearch ==
  /\ call.op = "extract"
  /\ call.stage = "input"
  /\ call' = [call EXCEPT !.stage = "search", !.made = search_record(call.frag)]
  /\ UNCHANGED <<config_vars, finder_state>>

NextExtract == ExtractPrimary \/ ExtractSearch

SpecExtract == InitExtract /\ [][NextExtract]_vars

(***************************************************************************)
(* The persistent variant (amazon_deals_github_persistent.py): its element *)
(* pipelines. A conversion that raises is caught around the element, which *)
(* then gives no record.                                                   *)
(***************************************************************************)
Parsed(value) == [ok |-> TRUE, value |-> value]

ParseRaises == [ok |-> FALSE, value |-> None]

\* ''.join(c for c in text if c.isdigit() or c == '.')
PriceChars(t) == SelectSeq(t, LAMBDA c : c \in Digits \cup {"."})

\* float(s) raises ValueError unless s has a digit and at most one "."
FloatRaises(t) ==
  \/ \A i \in 1..Len(t) : t[i] \notin Digits
  \/ Cardinality({i \in 1..Len(t) : t[i] = "."}) > 1

\* float(''.join(...)) of the stripped price text
FloatOfChars(kept) ==
  IF FloatRaises(kept) THEN ParseRaises ELSE Parsed(Some(FloatOfText(kept)))

persistent_parse_price(text) == FloatOfChars(PriceChars(Strip(text)))

PersistentPrices == [text \in PriceTexts |-> persistent_parse_price(text)]

PersistentPriceOf(elem) ==
  IF IsNone(elem) THEN Parsed(None) ELSE PersistentPrices[elem[1]]

\* int(''.join(c for c in discount_text if c.isdigit())): raises on no digit
IntOfChars(kept) == IF kept = <<>> THEN ParseRaises ELSE Parsed(IntOfDigits(kept))

persistent_badge_discount(elem) ==
  IF IsNone(elem) THEN Parsed(0)
  ELSE IntOfChars(SelectSeq(Strip(elem[1]), LAMBDA c : c \in Digits))

\* int(x) for any x: truncation toward zero
SignedTrunc(x) == IF x.neg THEN 0 - FTrunc(x) ELSE FTrunc(x)

\* the discount the prices give in _extract_product_info of this variant:
\* "original_price and current_price", with no test of their order
persistent_price_discount(original_price, current_price) ==
  IF BothPricesTruthy(original_price, current_price)
  THEN SignedTrunc(FMul(FDiv(FSub(original_price[1], current_price[1]),
                             original_price[1]),
                        FloatOfNat(100)))
  ELSE 0

PersistentDiscounts ==
  [pair \in PricePairs |-> persistent_price_discount(pair[1], pair[2])]

PersistentBadgeOrPrices(stated, original_price, current_price) ==
  IF stated = 0 THEN PersistentDiscounts[<<original_price, current_price>>] ELSE stated

\* the threshold test and the dict that is returned
PersistentChecked(frag, found, current_price, original_price, discount_percent) ==
  IF discount_percent < min_discount THEN None
  ELSE Some([ title            |-> TitleOf(frag),
              url              |-> found[1],
              asin             |-> SearchAsin(found[1]),
              current_price    |-> current_price,
              original_price   |-> original_price,
              discount_percent |-> discount_percent ])

PersistentInfo(frag, found, price, original, badge) ==
  IF IsNone(found) \/ ~price.ok \/ ~original.ok \/ ~badge.ok THEN None
  ELSE PersistentChecked(frag, found, price.value, original.value,
                         PersistentBadgeOrPrices(badge.value, original.value,
                                                 price.value))

\* _extract_product_info of the persistent variant
persistent_extract_product_info(frag) ==
  PersistentInfo(frag, SearchUrl(frag), PersistentPriceOf(frag.price),
                 PersistentPriceOf(frag.original), persistent_badge_discount(frag.badge))

\* the fields both loops of this variant add, with its own link rewriter
PersistentCompleted(info) ==
  [ title             |-> info.title,
    url               |-> info.url,
    asin              |-> info.asin,
    current_price     |-> info.current_price,
    original_price    |-> info.original_price,
    discount_percent  |-> info.discount_percent,
    affiliate_link    |-> persistent_generate_affiliate_link(info.url, affiliate_tag),
    post_title        |-> format_post_title(info.title, info.discount_percent,
                                            info.original_price, info.current_price),
    dollar_amount_off |-> DollarAmounts[<<info.original_price, info.current_price>>] ]

PersistentCompletedIf(product_info) ==
  IF ~IsNone(product_info) /\ product_info[1].discount_percent >= min_discount
  THEN Some(PersistentCompleted(product_info[1]))
  ELSE None

\* the record the deal page loop of this variant makes of an element, or None
persistent_record(frag) == PersistentCompletedIf(persistent_extract_product_info(frag))

PersistentSearched(frag, found, price, original) ==
  IF frag.sponsored \/ IsNone(found) \/ ~price.ok \/ ~original.ok THEN None
  ELSE PersistentCompletedIf(
         PersistentChecked(frag, found, price.value, original.value,
                           PriceDiscounts[<<original.value, price.value>>]))

\* the record the search loop of this variant makes of a result, or None
persistent_search_record(frag) ==
  PersistentSearched(frag, SearchUrl(frag), PersistentPriceOf(frag.price),
                     PersistentPriceOf(frag.original))

(***************************************************************************)
(* find_deals and _find_deals_by_search of the persistent variant: one GET *)
(* per page with no retry, any failure of it skips the page.               *)
(***************************************************************************)
\* in this variant fetched lists, for each record in the order it was made,
\* the page it was read from
TakenFrom(who, at) == [who |-> who, at |-> at, ok |-> TRUE]

InitPersistent ==
  /\ affiliate_tag = AFFILIATE_TAG
  /\ min_discount \in MinDiscounts
  /\ max_items \in 0..MaxItems
  /\ pc = "p_sources"
  /\ deals = <<>>
  /\ dropped = {}
  /\ source_at = 1
  /\ remaining = 0
  /\ caller = "none"
  /\ attempt = 0
  /\ requests = 0
  /\ slept = <<>>
  /\ outcomes = <<>>
  /\ response = "pending"
  /\ fetched = <<>>
  /\ search_max = 0
  /\ search_deals = <<>>
  /\ queries = <<>>
  /\ query_at = 1
  /\ more_at = 1
  /\ returned = None
  /\ call = NoCall

PersistentBudgetBreak ==
  /\ pc = "p_sources"
  /\ source_at <= NumSources
  /\ Len(deals) >= max_items
  /\ pc' = "p_after"
  /\ UNCHANGED <<config_vars, finder_vars, fetcher_vars, search_vars, more_at, returned, call>>
  /\ UNCHANGED fetched
  /\ UNCHANGED dropped

\* the GET raises, or answers with a status other than 200
PersistentGetFails ==
  /\ pc = "p_sources"
  /\ source_at <= NumSources
  /\ Len(deals) < max_items
  /\ requests' = requests + 1
  /\ source_at' = source_at + 1
  /\ UNCHANGED <<config_vars, pc, deals, remaining, caller, attempt, slept, outcomes, response, search_vars, more_at, returned, call>>
  /\ UNCHANGED fetched
  /\ UNCHANGED dropped

PersistentGetPage(count) ==
  /\ pc = "p_sources"
  /\ source_at <= NumSources
  /\ Len(deals) < max_items
  /\ requests' = requests + 1
  /\ remaining' = count
  /\ pc' = "p_elements"
  /\ UNCHANGED <<config_vars, deals, source_at, caller, attempt, slept, outcomes, response, search_vars, more_at, returned, call>>
  /\ UNCHANGED fetched
  /\ UNCHANGED dropped

PersistentElementBreak ==
  /\ pc = "p_elements"
  /\ remaining > 0
  /\ Len(deals) >= max_items
  /\ remaining' = 0
  /\ source_at' = source_at + 1
  /\ pc' = "p_sources"
  /\ UNCHANGED <<config_vars, deals, fetcher_vars, search_vars, more_at, returned, call>>
  /\ UNCHANGED fetched
  /\ UNCHANGED dropped

PersistentElement(frag) ==
  /\ pc = "p_elements"
  /\ remaining > 0
  /\ Len(deals) < max_items
  /\ deals' = AppendAny(deals, persistent_record(frag))
  /\ remaining' = remaining - 1
  /\ UNCHANGED <<config_vars, pc, source_at, fetcher_vars, search_vars, more_at, returned, call>>
  /\ fetched' = IF IsNone(persistent_record(frag)) THEN fetched
                ELSE Append(fetched, TakenFrom("primary", source_at))
  /\ UNCHANGED dropped

PersistentPageEnd ==
  /\ pc = "p_elements"
  /\ remaining = 0
  /\ source_at' = source_at + 1
  /\ pc' = "p_sources"
  /\ UNCHANGED <<config_vars, deals, remaining, fetcher_vars, search_vars, more_at, returned, call>>
  /\ UNCHANGED fetched
  /\ UNCHANGED dropped

PersistentSourcesEnd ==
  /\ pc = "p_sources"
  /\ source_at > NumSources
  /\ pc' = "p_after"
  /\ UNCHANGED <<config_vars, finder_vars, fetcher_vars, search_vars, more_at, returned, call>>
  /\ UNCHANGED fetched
  /\ UNCHANGED dropped

PersistentStartSearch(order) ==
  /\ pc = "p_after"
  /\ Len(deals) < max_items
  /\ search_max' = max_items - Len(deals)
  /\ search_deals' = <<>>
  /\ queries' = order
  /\ query_at' = 1
  /\ pc' = "p_search"
  /\ UNCHANGED <<config_vars, finder_vars, fetcher_vars, more_at, returned, call>>
  /\ UNCHANGED fetched
  /\ UNCHANGED dropped

PersistentSkipSearch ==
  /\ pc = "p_after"
  /\ Len(deals) >= max_items
  /\ pc' = "p_return"
  /\ UNCHANGED <<config_vars, finder_vars, fetcher_vars, search_vars, more_at, returned, call>>
  /\ UNCHANGED fetched
  /\ UNCHANGED dropped

PersistentSearchBreak ==
  /\ pc = "p_search"
  /\ query_at <= NumQueries
  /\ Len(search_deals) >= search_max
  /\ pc' = "p_extend"
  /\ UNCHANGED <<config_vars, finder_vars, fetcher_vars, search_vars, more_at, returned, call>>
  /\ UNCHANGED fetched
  /\ UNCHANGED dropped

PersistentSearchFails ==
  /\ pc = "p_search"
  /\ query_at <= NumQueries
  /\ Len(search_deals) < search_max
  /\ requests' = requests + 1
  /\ query_at' = query_at + 1
  /\ UNCHANGED <<config_vars, pc, finder_vars, caller, attempt, slept, outcomes, response, search_max, search_deals, queries, more_at, returned, call>>
  /\ UNCHANGED fetched
  /\ UNCHANGED dropped

PersistentSearchPage(count) ==
  /\ pc = "p_search"
  /\ query_at <= NumQueries
  /\ Len(search_deals) < search_max
  /\ requests' = requests + 1
  /\ remaining' = count
  /\ pc' = "p_search_elements"
  /\ UNCHANGED <<config_vars, deals, source_at, caller, attempt, slept, outcomes, response, search_vars, more_at, returned, call>>
  /\ UNCHANGED fetched
  /\ UNCHANGED dropped

PersistentSearchElementBreak ==
  /\ pc = "p_search_elements"
  /\ remaining > 0
  /\ Len(search_deals) >= search_max
  /\ remaining' = 0
  /\ query_at' = query_at + 1
  /\ pc' = "p_search"
  /\ UNCHANGED <<config_vars, deals, source_at, fetcher_vars, search_max, search_deals, queries, more_at, returned, call>>
  /\ UNCHANGED fetched
  /\ UNCHANGED dropped

PersistentSearchElement(frag) ==
  /\ pc = "p_search_elements"
  /\ remaining > 0
  /\ Len(search_deals) < search_max
  /\ search_deals' = AppendAny(search_deals, persistent_search_record(frag))
  /\ remaining' = remaining - 1
  /\ UNCHANGED <<config_vars, pc, deals, source_at, fetcher_vars, search_max, queries, query_at, more_at, returned, call>>
  /\ fetched' = IF IsNone(persistent_search_record(frag)) THEN fetched
                ELSE Append(fetched, TakenFrom("search", query_at))
  /\ UNCHANGED dropped

PersistentSearchPageEnd ==
  /\ pc = "p_search_elements"
  /\ remaining = 0
  /\ query_at' = query_at + 1
  /\ pc' = "p_search"
  /\ UNCHANGED <<config_vars, finder_vars, fetcher_vars, search_max, search_deals, queries, more_at, returned, call>>
  /\ UNCHANGED fetched
  /\ UNCHANGED dropped

PersistentSearchEnd ==
  /\ pc = "p_search"
  /\ query_at > NumQueries
  /\ pc' = "p_extend"
  /\ UNCHANGED <<config_vars, finder_vars, fetcher_vars, search_vars, more_at, returned, call>>
  /\ UNCHANGED fetched
  /\ UNCHANGED dropped

\* deals.extend(more_deals)
PersistentExtend ==
  /\ pc = "p_extend"
  /\ deals' = deals \o search_deals
  /\ pc' = "p_return"
  /\ UNCHANGED <<config_vars, source_at, remaining, fetcher_vars, search_vars, more_at, returned, call>>
  /\ UNCHANGED fetched
  /\ UNCHANGED dropped

\* return deals[:max_items]
PersistentReturn ==
  /\ pc = "p_return"
  /\ returned' = Some(SliceTo(deals, max_items))
  /\ pc' = "p_done"
  /\ UNCHANGED <<config_vars, finder_vars, fetcher_vars, search_vars, more_at, call>>
  /\ UNCHANGED fetched
  /\ UNCHANGED dropped

NextPersistent ==
  \/ PersistentBudgetBreak
  \/ PersistentGetFails
  \/ \E count \in 0..MaxFrags : PersistentGetPage(count)
  \/ PersistentElementBreak
  \/ \E frag \in Fragments : PersistentElement(frag)
  \/ PersistentPageEnd
  \/ PersistentSourcesEnd
  \/ \E order \in Shuffles : PersistentStartSearch(order)
  \/ PersistentSkipSearch
  \/ PersistentSearchBreak
  \/ PersistentSearchFails
  \/ \E count \in 0..MaxFrags : PersistentSearchPage(count)
  \/ PersistentSearchElementBreak
  \/ \E frag \in Fragments : PersistentSearchElement(frag)
  \/ PersistentSearchPageEnd
  \/ PersistentSearchEnd
  \/ PersistentExtend
  \/ PersistentReturn

SpecPersistent == InitPersistent /\ [][NextPersistent]_vars

(***************************************************************************)
(* PastebinUploader of the persistent variant: upload_deals_as_csv picks   *)
(* one of _update_existing_paste, _create_new_paste, _upload_anonymous.    *)
(* Texts are sequences of pieces; "/" and " " are pieces of their own.     *)
(***************************************************************************)
PasteSite == "https://pastebin.com"

BadRequest == "Bad API request"

\* the texts a POST to the API is answered with
PasteBodies ==
  { <<"https:", "/", "/", "pastebin.com", "/", "Nw3x">>,
    <<BadRequest, ", ", "invalid api_dev_key">>,
    <<>> }

PasteStatuses == {200, 403, 503}

PasteKeys == {None, Some("Ab12")}

DevKeys == {None, Some("dev")}

PasteTitles == {<<"Amazon", " ", "Deals">>, <<"Deals">>}

\* response.status_code == 200 and not response.text.startswith('Bad API request')
PostSucceeded(status, body) ==
  status = 200 /\ ~(body # <<>> /\ body[1] = BadRequest)

\* text.split('/')[-1]
LastSegment(text) ==
  LET cuts == {i \in 1..Len(text) : text[i] = "/"}
  IN  IF cuts = {} THEN text ELSE SubSeq(text, (CHOOSE i \in cuts : \A j \in cuts : j <= i) + 1, Len(text))

\* title.replace(' ', '_')
Underscored(title) == [i \in 1..Len(title) |-> IF title[i] = " " THEN "_" ELSE title[i]]

Posted(kind, outcome, status, body) ==
  [kind |-> kind, outcome |-> outcome, status |-> status, body |-> body]

InitPaste ==
  /\ Idle
  /\ affiliate_tag = AFFILIATE_TAG
  /\ min_discount = MIN_DISCOUNT_PERCENT
  /\ max_items = 0
  /\ \E api_dev_key \in DevKeys, paste_key \in PasteKeys, title \in PasteTitles :
       call = [op |-> "paste", stage |-> "upload", api_dev_key |-> api_dev_key,
               paste_key |-> paste_key, title |-> title, posts |-> <<>>,
               result |-> None]

\* upload_deals_as_csv, after the CSV files are written: the dispatch
UploadDispatch ==
  /\ call.op = "paste"
  /\ call.stage = "upload"
  /\ call' = [call EXCEPT !.stage = IF IsNone(call.api_dev_key) THEN "anonymous"
                                    ELSE IF IsNone(call.paste_key) THEN "create"
                                    ELSE "update"]
  /\ UNCHANGED <<config_vars, finder_state>>

\* the update POST is answered: success returns the paste's URL, anything
\* else goes on to _create_new_paste. upload_deals_as_csv calls it with a
\* paste key only, so its branch for no paste key is never taken.
UpdateAnswered(status, body) ==
  /\ call.op = "paste"
  /\ call.stage = "update"
  /\ ~IsNone(call.paste_key)
  /\ call' = IF PostSucceeded(status, body)
             THEN [call EXCEPT !.stage = "done",
                               !.posts = Append(@, Posted("update", "answered", status, body)),
                               !.result = Some(<<PasteSite, "/", call.paste_key[1]>>)]
             ELSE [call EXCEPT !.stage = "create",
                               !.posts = Append(@, Posted("update", "answered", status, body))]
  /\ UNCHANGED <<config_vars, finder_state>>

\* the update POST raises: the except clause of _update_existing_paste
\* returns None
UpdateRaised ==
  /\ call.op = "paste"
  /\ call.stage = "update"
  /\ ~IsNone(call.paste_key)
  /\ call' = [call EXCEPT !.stage = "done",
                          !.posts = Append(@, Posted("update", "raised", 0, <<>>)),
                          !.result = None]
  /\ UNCHANGED <<config_vars, finder_state>>

\* the create POST is answered: success keeps the new paste key and returns
\* the answered URL, anything else returns None
CreateAnswered(status, body) ==
  /\ call.op = "paste"
  /\ call.stage = "create"
  /\ call' = IF PostSucceeded(status, body)
             THEN [call EXCEPT !.stage = "done",
                               !.posts = Append(@, Posted("create", "answered", status, body)),
                               !.paste_key = Some(LastSegment(body)),
                               !.result = Some(body)]
             ELSE [call EXCEPT !.stage = "done",
                               !.posts = Append(@, Posted("create", "answered", status, body)),
                               !.result = None]
  /\ UNCHANGED <<config_vars, finder_state>>

CreateRaised ==
  /\ call.op = "paste"
  /\ call.stage = "create"
  /\ call' = [call EXCEPT !.stage = "done",
                          !.posts = Append(@, Posted("create", "raised", 0, <<>>)),
                          !.result = None]
  /\ UNCHANGED <<config_vars, finder_state>>

\* _upload_anonymous: no POST, a placeholder URL
UploadAnonymous ==
  /\ call.op = "paste"
  /\ call.stage = "anonymous"
  /\ call' = [call EXCEPT !.stage = "done",
                          !.result = Some(<<PasteSite, "/", "simulated_paste_for_">>
                                          \o Underscored(call.title))]
  /\ UNCHANGED <<config_vars, finder_state>>

NextPaste ==
  \/ UploadDispatch
  \/ \E status \in PasteStatuses, body \in PasteBodies : UpdateAnswered(status, body)
  \/ UpdateRaised
  \/ \E status \in PasteStatuses, body \in PasteBodies : CreateAnswered(status, body)
  \/ CreateRaised
  \/ UploadAnonymous

SpecPaste == InitPaste /\ [][NextPaste]_vars

(***************************************************************************)
(* save_deals_to_csv: one row of six cells per deal, after the header row. *)
(* A cell is what csv.writer writes of a Python value: a text, a number.   *)
(***************************************************************************)
TextCell(text) == [kind |-> "text", text |-> text]

FloatCell(x) == [kind |-> "float", value |-> x]

\* f"{n}%"
PercentCell(n) == [kind |-> "percent", value |-> n]

\* n / d rounded to the nearest natural, a tie to the even one
RoundedDiv(n, d, qr) ==
  IF BGeq(BStrip(BShl(BStrip(qr.r), 1)), d)
     /\ (BStrip(BShl(BStrip(qr.r), 1)) # d \/ (qr.q # <<>> /\ qr.q[Len(qr.q)] = 1))
  THEN BToNat(BAdd(qr.q, <<1>>))
  ELSE BToNat(qr.q)

\* the digits f"{x:.2f}" shows, as a number of cents
Cents(x) ==
  IF x.mant = <<>> THEN 0
  ELSE IF x.exp >= 0 THEN BToNat(BShl(BMul(x.mant, BOfNat(100)), x.exp))
  ELSE RoundedDiv(BMul(x.mant, BOfNat(100)), BShl(<<1>>, 0 - x.exp),
                  BDivMod(BMul(x.mant, BOfNat(100)), BShl(<<1>>, 0 - x.exp)))

\* f"${dollar_off:.2f} off"
DollarsOffCell(x) == [kind |-> "dollars_off", neg |-> x.neg, cents |-> Cents(x)]

\* deal.get(key, 0) for a price: the key is always set, to None when the
\* price is unknown, so the default is never used; csv.writer writes None
\* as the empty text
PriceCell(price) == IF IsNone(price) THEN TextCell(<<>>) ELSE FloatCell(price[1])

CsvHeaders ==
  << "Product Title", "Discount %", "Dollar Amount Off", "Current Price ($)",
     "Original Price ($)", "Affiliate Link" >>

HeaderRow == [i \in 1..Len(CsvHeaders) |-> TextCell(<<CsvHeaders[i]>>)]

CsvRow(deal) ==
  << TextCell(deal.title),
     PercentCell(deal.discount_percent),
     DollarsOffCell(deal.dollar_amount_off),
     PriceCell(deal.current_price),
     PriceCell(deal.original_price),
     TextCell(deal.affiliate_link) >>

\* the elements whose records are saved
CsvElements ==
  {Frag(<<HrefBracket>>, <<>>, title, price, original, badge, FALSE) :
     title \in ElementTitles, price \in ElementPrices, original \in ElementPrices,
     badge \in {None, Some(<<"6", "0", "%">>)}}

\* the lists main saves: what find_deals returned, here of one record of
\* either loop, or the empty list
InitCsv ==
  /\ Idle
  /\ affiliate_tag = AFFILIATE_TAG
  /\ min_discount \in MinDiscounts
  /\ max_items = 0
  /\ \E frag \in CsvElements, made \in {"primary", "search", "nothing"} :
       call = [op |-> "csv", stage |-> "input", rows |-> <<>>,
               deals |-> IF made = "primary" THEN AppendAny(<<>>, primary_record(frag))
                         ELSE IF made = "search" THEN AppendAny(<<>>, search_record(frag))
                         ELSE <<>>]

\* open() raises: the except clause logs, nothing is written
CsvOpenFails ==
  /\ call.op = "csv"
  /\ call.stage = "input"
  /\ call' = [call EXCEPT !.stage = "failed"]
  /\ UNCHANGED <<config_vars, finder_state>>

CsvWriteHeader ==
  /\ call.op = "csv"
  /\ call.stage = "input"
  /\ call' = [call EXCEPT !.stage = "rows", !.rows = <<HeaderRow>>]
  /\ UNCHANGED <<config_vars, finder_state>>

CsvWriteRow ==
  /\ call.op = "csv"
  /\ call.stage = "rows"
  /\ Len(call.rows) <= Len(call.deals)
  /\ call' = [call EXCEPT !.rows = Append(@, CsvRow(call.deals[Len(call.rows)]))]
  /\ UNCHANGED <<config_vars, finder_state>>

CsvClose ==
  /\ call.op = "csv"
  /\ call.stage = "rows"
  /\ Len(call.rows) > Len(call.deals)
  /\ call' = [call EXCEPT !.stage = "saved"]
  /\ UNCHANGED <<config_vars, finder_state>>

NextCsv == CsvOpenFails \/ CsvWriteHeader \/ CsvWriteRow \/ CsvClose

SpecCsv == InitCsv /\ [][NextCsv]_vars

(***************************************************************************)
(* The loop over the deal elements of one page (specification SpecPage)    *)
(***************************************************************************)
\* the product of HrefA, reached with a query suffix
HrefAQuery == <<"/dp/", "B01", "?", "ref", "=", "x">>

PageElements ==
  Fragments \cup
    { Frag(<<HrefAQuery>>, <<>>, Some(TitleB), Some(Text21), Some(Text50), None, FALSE),
      Frag(<<HrefAQuery>>, <<>>, None, Some(Text21), Some(Text50), None, FALSE) }

\* a page of MaxFrags + 1 elements at most, an empty list, a positive budget;
\* the loop is that of find_deals over deal_elements or that of
\* _find_deals_by_search over result_elements; errors counts the elements
\* that raised, kept is the length of the list at the last of them
InitPage ==
  /\ Idle
  /\ affiliate_tag = AFFILIATE_TAG
  /\ min_discount \in MinDiscounts
  /\ max_items \in 1..MaxItems
  /\ \E count \in 0..(MaxFrags + 1), loop \in {"primary", "search"} :
       call = [op |-> "page", stage |-> "elements", loop |-> loop, left |-> count,
               deals |-> <<>>, errors |-> 0, kept |-> 0]

\* if len(deals) >= max_items: break
PageBreak ==
  /\ call.op = "page"
  /\ call.stage = "elements"
  /\ call.left > 0
  /\ Len(call.deals) >= max_items
  /\ call' = [call EXCEPT !.stage = "done"]
  /\ UNCHANGED <<config_vars, finder_state>>

\* the body of the loop: the record of the element and the append, in
\* find_deals after the test for a duplicate
PageElement(frag) ==
  /\ call.op = "page"
  /\ call.stage = "elements"
  /\ call.left > 0
  /\ Len(call.deals) < max_items
  /\ call' = [call EXCEPT !.left = @ - 1,
                          !.deals = IF call.loop = "primary"
                                    THEN AppendRecord(@, primary_record(frag))
                                    ELSE AppendAny(@, search_record(frag))]
  /\ UNCHANGED <<config_vars, finder_state>>

\* a faulty body: the exception is raised after the append
PageElementRaisesLate ==
  /\ call.op = "page"
  /\ call.stage = "elements"
  /\ call.left > 0
  /\ Len(call.deals) < max_items
  /\ \E frag \in PageElements :
       call' = [call EXCEPT !.left = @ - 1,
                            !.errors = @ + 1,
                            !.kept = Len(call.deals),
                            !.deals = AppendAny(@, search_record(frag))]
  /\ UNCHANGED <<config_vars, finder_state>>

\* the body of the loop raises: every statement that can raise stands before
\* deals.append, and after it only the log line is left, which formats the
\* title, the discount and the amount of the record; except Exception:
\* continue
PageElementRaises ==
  /\ call.op = "page"
  /\ call.stage = "elements"
  /\ call.left > 0
  /\ Len(call.deals) < max_items
  /\ call' = [call EXCEPT !.left = @ - 1,
                          !.errors = @ + 1,
                          !.kept = Len(call.deals)]
  /\ UNCHANGED <<config_vars, finder_state>>

\* the elements are exhausted
PageEnd ==
  /\ call.op = "page"
  /\ call.stage = "elements"
  /\ call.left = 0
  /\ call' = [call EXCEPT !.stage = "done"]
  /\ UNCHANGED <<config_vars, finder_state>>

NextPage ==
  \/ PageBreak
  \/ \E frag \in PageElements : PageElement(frag)
  \/ PageElementRaises
  \/ PageEnd

SpecPage == InitPage /\ [][NextPage]_vars

(***************************************************************************)
(* Properties of find_deals (specification Spec)                           *)
(***************************************************************************)
\* the list find_deals returned, empty while it has not returned
ReturnedDeals == IF IsNone(returned) THEN <<>> ELSE returned[1]

\* C1: every record of the list find_deals returns, from a deal page or from
\* a search query, has discount_percent >= min_discount
C1_ReturnedAboveThreshold ==
  \A i \in 1..Len(ReturnedDeals) : ReturnedDeals[i].discount_percent >= min_discount

\* find_deals has returned two records, the first accepted from a deal page
\* and the second from a search query
C1_Witness ==
  /\ pc = "done"
  /\ min_discount = MIN_DISCOUNT_PERCENT
  /\ Len(ReturnedDeals) = 2
  /\ search_max = 1
  /\ Len(search_deals) = 1
  /\ ReturnedDeals[2] = search_deals[1]

\* C2: the list find_deals returns has at most max_items records
C2_ReturnedWithinBudget ==
  ~IsNone(returned) => Len(returned[1]) <= max_items

\* find_deals has returned a full list and left elements of a page unvisited
C2_Witness ==
  /\ pc = "done"
  /\ max_items > 0
  /\ Len(ReturnedDeals) = max_items
  /\ remaining > 0

\* C3: no two records of the list find_deals returns have the same url, and
\* no two have the same title
C3_ReturnedDistinct ==
  \A i, j \in 1..Len(ReturnedDeals) :
    i # j => /\ ReturnedDeals[i].url # ReturnedDeals[j].url
             /\ ReturnedDeals[i].title # ReturnedDeals[j].title

\* find_deals has returned one record after the search had found two records
\* with the same url
C3_Witness ==
  /\ pc = "done"
  /\ Len(ReturnedDeals) = 1
  /\ Len(search_deals) = 2
  /\ search_deals[1].url = search_deals[2].url

\* C10: a call of _get_with_retries issues at most MAX_RETRIES requests; it
\* returns the response with the request that was answered 200, every
\* request before it having failed, and it returns None only after
\* MAX_RETRIES requests that all failed
C10_BoundedRetries ==
  /\ requests <= MAX_RETRIES
  /\ Len(slept) <= requests
  /\ (pc = "got" /\ response = "200") => requests = Len(slept) + 1
  /\ (pc = "got" /\ response = "None") =>
       requests = MAX_RETRIES /\ Len(slept) = MAX_RETRIES

\* a call has returned None
C10_Witness ==
  /\ pc = "got"
  /\ response = "None"
  /\ requests = MAX_RETRIES

(***************************************************************************)
(* Properties of _generate_affiliate_link (specification SpecLink)         *)
(***************************************************************************)
\* the parameters of the query string of a URL, as a URL parser reads them:
\* the pieces between "&" of the part after the first "?" and before the
\* first "#", each with its decoded name and value
QueryPieces(link) ==
  SelectSeq(SplitOn(AfterFirst(BeforeFirst(link, {"#"}), {"?"}), "&"),
            LAMBDA piece : piece # <<>>)

PieceName(piece) == Unquote(BeforeFirst(piece, {"="}))

PieceValue(piece) == Unquote(AfterFirst(piece, {"="}))

\* the values of the tag parameters of a URL, in order
TagValues(link) ==
  MapSeq(PieceValue, SelectSeq(QueryPieces(link), LAMBDA piece : PieceName(piece) = TagName))

\* how often a parameter with this name and value occurs in a list of pieces
Occurrences(pieces, name, value) ==
  Cardinality({i \in 1..Len(pieces) :
                 PieceName(pieces[i]) = name /\ PieceValue(pieces[i]) = value})

\* the two lists hold the same parameters, each as often, in any order
SameParams(left, right) ==
  /\ \A i \in 1..Len(left) :
       Occurrences(left, PieceName(left[i]), PieceValue(left[i]))
         = Occurrences(right, PieceName(left[i]), PieceValue(left[i]))
  /\ \A i \in 1..Len(right) :
       Occurrences(left, PieceName(right[i]), PieceValue(right[i]))
         = Occurrences(right, PieceName(right[i]), PieceValue(right[i]))

OtherParams(link) ==
  SelectSeq(QueryPieces(link), LAMBDA piece : PieceName(piece) # TagName)

\* scheme, host and path of a URL, and its fragment
HeadOf(link) == BeforeFirst(link, {"?", "#"})

FragmentOf(link) == AfterFirst(link, {"#"})

EnhancedRewritten ==
  call.op = "link" /\ call.variant = "enhanced" /\ call.stage # "input"

\* C4: the URL the enhanced _generate_affiliate_link returns has exactly one
\* tag parameter in its query string, with the configured tag as its value
C4_ExactlyOneTag ==
  EnhancedRewritten => TagValues(call.once) = << <<affiliate_tag>> >>

\* C5: the enhanced _generate_affiliate_link keeps every parameter other than
\* tag, with each of its values (empty ones and repeated ones too), and keeps
\* scheme, host, path and fragment
C5_OtherParamsPreserved ==
  EnhancedRewritten =>
    /\ SameParams(OtherParams(call.url), OtherParams(call.once))
    /\ HeadOf(call.once) = HeadOf(call.url)
    /\ FragmentOf(call.once) = FragmentOf(call.url)

\* C6: rewriting a rewritten URL again with the same tag gives a URL with the
\* same parameters, in any order, and still exactly one tag parameter
C6_RewriteIdempotent ==
  (call.op = "link" /\ call.stage = "twice") =>
    /\ SameParams(QueryPieces(call.once), QueryPieces(call.twice))
    /\ Len(TagValues(call.twice)) = 1

(***************************************************************************)
(* Properties of the per-element pipelines (specification SpecExtract)     *)
(***************************************************************************)
\* floor(100 * (o - c) / o) for the exact values of two floats, o > 0
ExactPercentOff(original_price, current_price) ==
  BToNat(BDivMod(BMul(BSub(FAligned(original_price,
                                    FAlignExp(original_price, current_price)),
                           FAligned(current_price,
                                    FAlignExp(original_price, current_price))),
                      BOfNat(100)),
                 FAligned(original_price,
                          FAlignExp(original_price, current_price))).q)

\* for known prices o > c >= 0 the floor, else None
ExactFloors ==
  [pair \in PricePairs |->
     IF /\ ~IsNone(pair[1]) /\ ~IsNone(pair[2])
        /\ ~pair[2][1].neg
        /\ FGt(pair[1][1], pair[2][1])
     THEN Some(ExactPercentOff(pair[1][1], pair[2][1]))
     ELSE None]

\* max(o - c, 0) when both prices are known, else 0
ExpectedDollarsOff ==
  [pair \in PricePairs |->
     IF ~IsNone(pair[1]) /\ ~IsNone(pair[2]) /\ FGt(pair[1][1], pair[2][1])
     THEN FSub(pair[1][1], pair[2][1])
     ELSE FZero]

\* a pipeline has made a record of the element
RecordMade == call.op = "extract" /\ call.stage # "input" /\ ~IsNone(call.made)

MadePrices == <<call.made[1].original_price, call.made[1].current_price>>

\* C7: with no badge and known prices o > c >= 0 the discount of the record
\* is floor(100 * (o - c) / o), a value in 0..99
C7_DiscountIsFloor ==
  (RecordMade /\ IsNone(call.frag.badge) /\ ~IsNone(ExactFloors[MadePrices])) =>
    /\ call.made[1].discount_percent = ExactFloors[MadePrices][1]
    /\ call.made[1].discount_percent \in 0..99

\* C8: the discount of every record is in 0..100; a badge that states a value
\* outside 0..100 is passed over for the discount the prices give
C8_DiscountInRange ==
  RecordMade =>
    /\ call.made[1].discount_percent \in 0..100
    /\ badge_discount(call.frag.badge) > 100 =>
         call.made[1].discount_percent = PriceDiscounts[MadePrices]

\* C9: dollar_amount_off of every record is max(original - current, 0) when
\* both prices are known, a price of 0 too, is 0 when one is unknown, and
\* is never negative
C9_DollarsOffIsMax ==
  RecordMade =>
    /\ call.made[1].dollar_amount_off = ExpectedDollarsOff[MadePrices]
    /\ ~call.made[1].dollar_amount_off.neg

(***************************************************************************)
(* Properties of _get_with_retries and of the loops of find_deals          *)
(* (specification Spec)                                                    *)
(***************************************************************************)
\* the attempts of the current call that failed, in order
FailedOutcomes == SelectSeq(outcomes, LAMBDA o : o # Answered(200))

\* the delay the claim asks for after an attempt that ended this way
ClaimedDelay(o) ==
  IF o.kind = "status" /\ o.status \in {429, 503} THEN 2 * RETRY_DELAY ELSE RETRY_DELAY

\* C11: after every failed attempt of _get_with_retries the delay slept is
\* twice the base delay when the attempt was answered 429 or 503, and the
\* base delay after another status or a transport error
C11_DelayByFailure ==
  /\ Len(slept) = Len(FailedOutcomes)
  /\ \A i \in 1..Len(slept) : slept[i] = ClaimedDelay(FailedOutcomes[i])

\* a call whose attempts were answered 429, raised, and were answered 404
C11_Witness ==
  /\ outcomes = <<Answered(429), Raised, Answered(404)>>
  /\ slept = <<2 * RETRY_DELAY, RETRY_DELAY, RETRY_DELAY>>

\* the deal pages whose fetch has returned
SourcesFetched == {fetched[i].at : i \in {j \in 1..Len(fetched) : fetched[j].who = "primary"}}

\* every attempt of a fetch of a deal page has failed
SourceFailed == pc = "got" /\ caller = "primary" /\ response = "None"

\* C12: a deal page all of whose fetch attempts failed adds no record and
\* ends nothing: the loop goes on to the next deal page, which is fetched
\* when the budget is unmet, so that find_deals returns short of its budget
\* only after the fetch of every deal page has returned
C12_FailedSourceSkipped ==
  /\ [][SourceFailed =>
          /\ deals' = deals
          /\ pc' = "primary"
          /\ source_at' = source_at + 1]_vars
  /\ [][(pc = "primary" /\ source_at <= NumSources /\ Len(deals) < max_items) =>
          (pc' = "get" /\ caller' = "primary" /\ source_at' = source_at)]_vars
  /\ []((pc = "done" /\ Len(deals) < max_items) => SourcesFetched = 1..NumSources)

\* every attempt to fetch the first deal page failed, no record is kept and
\* the second deal page is being fetched
C12_Witness ==
  /\ Len(fetched) = 1
  /\ fetched[1] = [who |-> "primary", at |-> 1, ok |-> FALSE]
  /\ pc = "get"
  /\ caller = "primary"
  /\ source_at = 2
  /\ deals = <<>>
  /\ requests = 1

\* C13: whatever the fetches and the elements give, find_deals reaches its
\* return and returns the list it has accumulated (specification FairSpec)
C13_EventuallyDone ==
  <>(pc = "done" /\ returned = Some(deals))

\* find_deals has returned the empty list after it fetched every deal page
\* and every search query, the last fetch giving no response
C13_Witness ==
  /\ pc = "done"
  /\ returned = Some(<<>>)
  /\ max_items > 0
  /\ Len(fetched) = NumSources + NumQueries
  /\ ~fetched[Len(fetched)].ok

\* a step that processes an element of a page
ElementStep == pc \in {"primary_elements", "search_elements"} /\ remaining' = remaining - 1

\* a step that calls _get_with_retries, or one that issues a request
FetchStep == (pc # "get" /\ pc' = "get") \/ requests' = requests + 1

\* _find_deals_by_search is running
InSearch ==
  \/ pc \in {"search", "search_elements"}
  \/ pc \in {"get", "got"} /\ caller = "search"

\* C14: once the list holds max_items records no element is processed and no
\* fetch is issued any more, in find_deals and, for its own list and budget,
\* in _find_deals_by_search, whatever the current page still holds
C14_BudgetStopsWork ==
  /\ [][Len(deals) >= max_items => ~ElementStep /\ ~FetchStep]_vars
  /\ [][(InSearch /\ Len(search_deals) >= search_max) => ~ElementStep /\ ~FetchStep]_vars

\* the list is full while elements of the current deal page are still
\* unprocessed
C14_Witness ==
  /\ pc = "primary_elements"
  /\ remaining > 0
  /\ max_items > 0
  /\ Len(deals) = max_items

\* the search queries (by their place in the shuffled list) whose fetch has
\* returned
QueriesFetched == {fetched[i].at : i \in {j \in 1..Len(fetched) : fetched[j].who = "search"}}

\* C15: when find_deals returns, the list it returns has exactly max_items
\* records or every search query has been attempted
C15_DoneFullOrExhausted ==
  pc = "done" =>
    \/ Len(ReturnedDeals) = max_items
    \/ QueriesFetched = 1..NumQueries

\* the two records have the same url or the same title
SameKey(left, right) == left.url = right.url \/ left.title = right.title

\* C16: only accepted records stand in the way of later ones: every record
\* dropped as a duplicate has its url or its title in common with a record of
\* the list, never with a dropped record only
C16_DroppedOnlyByAccepted ==
  \A lost \in dropped : \E i \in 1..Len(deals) : SameKey(deals[i], lost)

\* a record was dropped for its url, and a later record with the dropped
\* record's title and a new url was accepted
C16_Witness ==
  /\ Len(deals) = 2
  /\ \E lost \in dropped :
       /\ lost.url = deals[1].url
       /\ lost.title # deals[1].title
       /\ lost.title = deals[2].title
       /\ lost.url # deals[2].url

(***************************************************************************)
(* Properties of the element pipelines (specification SpecExtract)         *)
(***************************************************************************)
Mentions(href, parts) == \E i \in 1..Len(href) : href[i] \in parts

\* an anchor of the element leads to a product, or an anchor of one of its
\* three nearest ancestors leads to a /dp/ page
HasProductLink(frag) ==
  \/ \E i \in 1..Len(frag.hrefs) : Mentions(frag.hrefs[i], {"/dp/", "/product/"})
  \/ \E k \in 1..Len(frag.outer) :
       /\ k <= 3
       /\ \E i \in 1..Len(frag.outer[k]) : Mentions(frag.outer[k][i], {"/dp/"})

PrimaryDone == call.op = "extract" /\ call.stage = "primary"

BadgeOnly(frag) ==
  /\ IsNone(frag.title)
  /\ IsNone(frag.price)
  /\ IsNone(frag.original)
  /\ ~IsNone(frag.badge)
  /\ badge_discount(frag.badge) >= min_discount

\* C18: a fragment of a deal page with no product URL gives no record; one
\* with a URL and a discount badge of at least min_discount gives a record
\* even with no title and no prices: its title is "Unknown Product" and both
\* its prices are None.
C18_OnlyMissingUrlFatal ==
  PrimaryDone =>
    /\ ~HasProductLink(call.frag) => IsNone(call.made)
    /\ (HasProductLink(call.frag) /\ BadgeOnly(call.frag)) =>
         /\ ~IsNone(call.made)
         /\ call.made[1].title = <<"Unknown Product">>
         /\ IsNone(call.made[1].current_price)
         /\ IsNone(call.made[1].original_price)

\* a badge-only element whose link is an ancestor's was extracted
C18_Witness ==
  /\ PrimaryDone
  /\ min_discount = MIN_DISCOUNT_PERCENT
  /\ call.frag.hrefs = <<>>
  /\ call.frag.outer = << <<>>, <<HrefB>> >>
  /\ BadgeOnly(call.frag)
  /\ ~IsNone(call.made)
  /\ call.made[1].discount_percent = 60
  /\ call.made[1].title = <<"Unknown Product">>

\* the price a text stands for: its first decimal token without the commas,
\* else its first integer token, else None
PriceOfText(text, decimal, integer) ==
  IF ~IsNone(decimal) THEN Some(FloatOfText(RemoveCommas(decimal[1])))
  ELSE IF ~IsNone(integer) THEN Some(FloatOfText(integer[1]))
  ELSE None

ExpectedPrices ==
  [text \in PriceTexts |-> PriceOfText(text, DecimalSearch(text), IntSearch(text))]

ExpectedPrice(elem) == IF IsNone(elem) THEN None ELSE ExpectedPrices[elem[1]]

\* C19: on deal pages and on search pages alike, the price of a record is
\* the first decimal token of the price text (commas removed), else its first
\* integer token, else None (also when there is no price text), and it is
\* never negative.
C19_PricesParsedAlike ==
  RecordMade =>
    /\ call.made[1].current_price = ExpectedPrice(call.frag.price)
    /\ call.made[1].original_price = ExpectedPrice(call.frag.original)
    /\ \A price \in {call.made[1].current_price, call.made[1].original_price} :
         ~IsNone(price) => ~price[1].neg

\* a search result was put through the search pipeline, and both pipelines
\* read the same fields from it: it is not sponsored and both find the same URL
SearchDoneOnSameFields ==
  /\ call.op = "extract"
  /\ call.stage = "search"
  /\ ~call.frag.sponsored
  /\ SearchUrl(call.frag) = ResolveUrl(call.frag)

SameOutcome(made, other) ==
  /\ IsNone(made) <=> IsNone(other)
  /\ ~IsNone(made) =>
       /\ made[1].discount_percent = other[1].discount_percent
       /\ made[1].current_price = other[1].current_price
       /\ made[1].original_price = other[1].original_price

\* C20: the search pipeline accepts an element exactly when the deal page
\* pipeline accepts an element with the same title, price texts, badge text
\* and URL, and both give the record the same discount_percent and prices.
C20_SamePipeline ==
  SearchDoneOnSameFields => SameOutcome(call.made, primary_record(call.frag))

\* the badge of the element has a text with no percentage token
BadgeWithoutPercent(frag) ==
  /\ ~IsNone(frag.badge)
  /\ IsNone(PercentSearch(Strip(frag.badge[1])))

\* C24: the badge is used only for its percentage token: for a badge with no
\* such token the discount of the record is floor(100 * (o - c) / o) when
\* both prices are known and o > c, and 0 otherwise, whatever other number
\* the badge text holds
C24_BadgeNeedsPercent ==
  (PrimaryDone /\ RecordMade /\ BadgeWithoutPercent(call.frag)) =>
    call.made[1].discount_percent =
      IF IsNone(ExactFloors[MadePrices]) THEN 0 ELSE ExactFloors[MadePrices][1]

(***************************************************************************)
(* Properties of the persistent variant (specification SpecPersistent)     *)
(***************************************************************************)
\* C17: two qualifying fragments of different pages (two deal pages, or a
\* deal page and a search query) with the same product URL give one record in
\* the list the persistent variant returns: no two returned records read from
\* different pages share a URL.
C17_PersistentOnePerUrl ==
  pc = "p_done" =>
    \A i, j \in 1..Len(returned[1]) :
      (fetched[i] # fetched[j]) => returned[1][i].url # returned[1][j].url

(***************************************************************************)
(* Properties of the uploader (specification SpecPaste)                    *)
(***************************************************************************)
UpdateFailed(post) ==
  /\ post.kind = "update"
  /\ post.outcome = "raised" \/ ~PostSucceeded(post.status, post.body)

\* C21: whenever the update of the existing paste fails, by its status, by
\* an error body or by an exception of the request, the uploader goes on to
\* create a new paste: the upload does not end with the failed update as its
\* last request.
C21_UpdateFailureFallsBack ==
  (call.op = "paste" /\ call.stage = "done") =>
    \A i \in 1..Len(call.posts) :
      UpdateFailed(call.posts[i]) =>
        \E j \in (i + 1)..Len(call.posts) : call.posts[j].kind = "create"

(***************************************************************************)
(* Properties of save_deals_to_csv (specification SpecCsv)                 *)
(***************************************************************************)
\* the cell of a price: the number itself when it is known, 0 when it is not
ExpectedPriceCell(price, cell) ==
  IF IsNone(price) THEN cell.kind \in {"int", "float"} /\ cell.value \in {0, FZero}
  ELSE cell = [kind |-> "float", value |-> price[1]]

\* C22: every row save_deals_to_csv writes has the current and the original
\* price as numbers, 0 standing for an unknown price, its dollar amount off,
\* and its affiliate link, under the six headers Product Title, Discount %,
\* Dollar Amount Off, Current Price ($), Original Price ($), Affiliate Link
\* in this order.
C22_CsvColumns ==
  (call.op = "csv" /\ call.rows # <<>>) =>
    /\ call.rows[1] =
         << [kind |-> "text", text |-> <<"Product Title">>],
            [kind |-> "text", text |-> <<"Discount %">>],
            [kind |-> "text", text |-> <<"Dollar Amount Off">>],
            [kind |-> "text", text |-> <<"Current Price ($)">>],
            [kind |-> "text", text |-> <<"Original Price ($)">>],
            [kind |-> "text", text |-> <<"Affiliate Link">>] >>
    /\ \A i \in 2..Len(call.rows) :
         /\ Len(call.rows[i]) = 6
         /\ call.rows[i][1].text = call.deals[i - 1].title
         /\ call.rows[i][2].value = call.deals[i - 1].discount_percent
         /\ call.rows[i][3].kind = "dollars_off"
         /\ ExpectedPriceCell(call.deals[i - 1].current_price, call.rows[i][4])
         /\ ExpectedPriceCell(call.deals[i - 1].original_price, call.rows[i][5])
         /\ call.rows[i][6].text = call.deals[i - 1].affiliate_link

(***************************************************************************)
(* Properties of the phases of find_deals (specification Spec)             *)
(***************************************************************************)
\* the loop over deal_urls has run through every deal page and has left the
\* list short of max_items records
PrimaryEndedShort == source_at > NumSources /\ Len(deals) < max_items

\* the fetches of the log are those of the deal pages first, those of the
\* search queries after them
PrimaryFetchedFirst ==
  \A i, j \in 1..Len(fetched) :
    (i < j /\ fetched[i].who = "search") => fetched[j].who = "search"

\* C23: the search queries are used only if the item budget is unmet: the
\* search runs, and a query is fetched, only after the loop over the deal
\* pages has finished, and never when that loop ended with max_items records
C23_SearchOnlyWhenUnmet ==
  /\ [](InSearch => PrimaryEndedShort)
  /\ [][(FetchStep /\ caller' = "search") => PrimaryEndedShort]_vars
  /\ []PrimaryFetchedFirst
  /\ []((pc = "done" /\ QueriesFetched # {}) => Len(fetched) > NumSources)

\* the deal pages gave a record but fewer than max_items, and a search page
\* has been fetched
C23_Witness ==
  /\ pc = "search_elements"
  /\ deals # <<>>
  /\ Len(deals) < max_items
  /\ QueriesFetched # {}

\* the first list is the head of the second
IsPrefix(short, long) ==
  /\ Len(short) <= Len(long)
  /\ SubSeq(long, 1, Len(short)) = short

\* C26: accepted records are never modified, removed or reordered: every
\* step leaves the list of find_deals, and the list of the search, as a
\* prefix of what it becomes, and the list find_deals returns is a prefix of
\* the list it has accumulated
C26_AppendOnly ==
  /\ [][IsPrefix(deals, deals') /\ IsPrefix(search_deals, search_deals')]_vars
  /\ [](pc = "done" => IsPrefix(ReturnedDeals, deals))

\* the list has grown in both phases and has been returned
C26_Witness ==
  /\ pc = "done"
  /\ Len(deals) >= 2
  /\ more_at > 1
  /\ deals[Len(deals)] = search_deals[more_at - 1]
  /\ ReturnedDeals = deals

\* the number of records the deal pages gave: what the budget handed to the
\* search leaves of max_items, the whole list while the search is not called
PrimaryCount == IF search_max > 0 THEN max_items - search_max ELSE Len(deals)

\* the first list is the second with some of its records left out
IsSubsequence(sub, full) ==
  \E at \in [1..Len(sub) -> 1..Len(full)] :
    /\ \A i \in 1..Len(sub) : sub[i] = full[at[i]]
    /\ \A i, j \in 1..Len(sub) : i < j => at[i] < at[j]

\* the records of the list after those of the deal pages
FromSearch(found) == SubSeq(found, PrimaryCount + 1, Len(found))

\* C27: in the returned list the records of the deal pages come before the
\* records of the search; the former stand in the order of the deal pages
\* and of the elements in them, the latter in the order in which the
\* shuffled queries gave them
C27_PrimaryThenSearch ==
  /\ [][Len(deals') > PrimaryCount' =>
          /\ pc' \in {"merge", "return", "done"}
          /\ IsSubsequence(FromSearch(deals)', SubSeq(search_deals', 1, more_at' - 1))]_vars
  /\ [][PrimaryCount' # PrimaryCount =>
          \/ /\ pc = "primary_elements"
             /\ search_deals = <<>> /\ QueriesFetched = {}
             /\ deals' = Append(deals, deals'[Len(deals')])
          \/ pc = "tail" /\ deals' = deals]_vars
  /\ [][search_deals' # search_deals =>
          /\ pc = "search_elements"
          /\ search_deals' = Append(search_deals, search_deals'[Len(search_deals')])]_vars
  /\ [][source_at' >= source_at /\ (pc # "tail" => query_at' >= query_at)]_vars
  /\ [](pc = "done" => ReturnedDeals = deals)

\* one record of a deal page and after it one of the search are returned
C27_Witness ==
  /\ pc = "done"
  /\ PrimaryCount = 1
  /\ Len(ReturnedDeals) = 2
  /\ ReturnedDeals[2] \in {search_deals[i] : i \in 1..Len(search_deals)}

\* the step makes an attempt that fails
FailedAttempt ==
  /\ requests' = requests + 1
  /\ outcomes'[Len(outcomes')] # Answered(200)

\* C28: in _get_with_retries every failed attempt, the last one too, is
\* followed by a delay before anything else happens: an attempt is made only
\* when each earlier one has been slept after, and None is returned only
\* after MAX_RETRIES delays, the last of them already over
C28_DelayAfterEveryFailure ==
  /\ [][FailedAttempt => Len(slept') = Len(slept) + 1]_vars
  /\ [][requests' = requests + 1 => Len(slept) = requests]_vars
  /\ [][(response # "None" /\ response' = "None") =>
          /\ Len(slept) = MAX_RETRIES
          /\ slept' = slept /\ requests' = requests]_vars

\* None is returned after a last attempt that raised
C28_Witness ==
  /\ pc = "got"
  /\ response = "None"
  /\ Len(slept) = MAX_RETRIES
  /\ outcomes[MAX_RETRIES] = Raised

\* the fields every record is to carry
RecordFields == {"url", "title", "discount_percent", "dollar_amount_off", "affiliate_link"}

\* C29: every record find_deals returns has a url that is not empty, a
\* title, a discount_percent, a dollar_amount_off and an affiliate_link, and
\* the link is the rewriting of the url of that same record with the
\* configured tag
C29_ReturnedAreLinked ==
  pc = "done" =>
    \A i \in 1..Len(ReturnedDeals) :
      /\ RecordFields \subseteq DOMAIN ReturnedDeals[i]
      /\ ReturnedDeals[i].url # <<>>
      /\ ReturnedDeals[i].discount_percent \in Int
      /\ ReturnedDeals[i].affiliate_link =
           generate_affiliate_link(ReturnedDeals[i].url, affiliate_tag)

\* two records are returned, with different urls and so different links: one
\* of a deal page, one of the search
C29_Witness ==
  /\ pc = "done"
  /\ Len(ReturnedDeals) = 2
  /\ PrimaryCount = 1
  /\ ReturnedDeals[1].affiliate_link # ReturnedDeals[2].affiliate_link

(***************************************************************************)
(* Properties of the loop over deal elements (specification SpecPage)      *)
(***************************************************************************)
\* C25: duplicates are found by product identifier as well as by URL and
\* title: the list never holds two records with the same ASIN, even when
\* their URLs differ in the query suffix and their titles differ (the list
\* of find_deals, filled from the elements of a deal page)
C25_OnePerAsin ==
  (call.op = "page" /\ call.loop = "primary") =>
    \A i, j \in 1..Len(call.deals) :
      (i # j /\ ~IsNone(call.deals[i].asin)) =>
        call.deals[i].asin # call.deals[j].asin

\* the step is an element whose processing raised
ElementRaised == call.op = "page" /\ call'.errors > call.errors

\* C30: an error raised while an element is processed stays with that
\* element: the step leaves the list as it was when the element was started,
\* and the loop goes on with the next element of the page
C30_ErrorIsolated ==
  /\ [][ElementRaised =>
          /\ call'.deals = call.deals
          /\ call'.stage = "elements"
          /\ call'.left = call.left - 1]_vars
  /\ []((call.op = "page" /\ call.errors > 0 /\ call.stage = "elements"
           /\ call.left > 0 /\ Len(call.deals) < max_items) =>
          ENABLED (\E frag \in PageElements : PageElement(frag)))

\* an element raised when the list held one record; the record is still
\* there and a later element of the page has added a second one
C30_Witness ==
  /\ call.op = "page"
  /\ call.errors = 1
  /\ call.kept = 1
  /\ Len(call.deals) = 2

====
